---- MODULE Spec2Model ----
(***************************************************************************)
(* Model of the DAWProject data access layer:                              *)
(*   DataAccessEngineImpl (saveProject, createReader, createWriter),       *)
(*   ProjectReaderImpl (forward-only streaming reader) and                 *)
(*   ProjectWriterImpl (buffered sequential writer),                       *)
(* over a small file system that stands for std::filesystem / fstream,     *)
(* and of the platform layer: MemoryManagerImpl, called by one thread and  *)
(* by several, and ConditionVariableImpl.                                  *)
(***************************************************************************)
EXTENDS Integers, Sequences, FiniteSets, TLC

VARIABLES
    fs,        \* the file system: absolute path -> node
    reader,    \* the ProjectReaderImpl object (or none)
    writer,    \* the ProjectWriterImpl object (or none)
    call,      \* the last call made: the operation and its arguments
    res,       \* what the last call returned
    hist,      \* history of the current sessions (what the calls returned so far)
    memory,    \* the MemoryManagerImpl object and the heap below it
    cv,        \* a ConditionVariableImpl object and the threads that use it
    tasks      \* the threads that call the memory manager, and its mutex_

vars == <<fs, reader, writer, call, res, hist, memory, cv, tasks>>

(***************************************************************************)
(* Bounds of the model.                                                    *)
(***************************************************************************)
\* errors and warnings one ValidationResult is followed up to
MaxMessages == 3
\* addresses the heap hands out
MaxBlocks == 2
\* successful write calls followed within one writer session
MaxWrites == 2
\* finalize() calls followed in one behaviour
MaxFinalize == 2
\* changes made to the file system from outside the program
MaxExternal == 1
\* successful open() calls followed on one reader
MaxSessions == 2
\* calls of wait() / waitFor() the waiter thread makes
MaxWaits == 2
\* calls of notifyOne() / notifyAll() the main thread makes
MaxNotifies == 2
\* calls the threads make to the memory manager, all together
MaxCalls == 4

(***************************************************************************)
(* std::string.  A string is a sequence of chunks, a chunk being a literal *)
(* text repeated n times; this keeps multi-megabyte strings representable. *)
(* Its size() is the sum of the chunks' sizes, operator+ is \o.            *)
(***************************************************************************)
Lit(s) == IF s = "" THEN <<>> ELSE <<[s |-> s, n |-> 1]>>

Rep(s, n) == IF n = 0 \/ s = "" THEN <<>> ELSE <<[s |-> s, n |-> n]>>

RECURSIVE Size(_)
Size(str) == IF str = <<>> THEN 0
             ELSE Len(str[1].s) * str[1].n + Size(Tail(str))

IsEmpty(str) == Size(str) = 0

(***************************************************************************)
(* double.  A number is kept in tenths (v = 1200 is 120.0); NaN is the one *)
(* value every ordered comparison answers false for.                       *)
(***************************************************************************)
Num(v) == [k |-> "num", v |-> v]

NaN == [k |-> "nan", v |-> 0]

\* d <= 0.0
LeZero(d) == d.k = "num" /\ d.v <= 0

\* d < 0.0
LtZero(d) == d.k = "num" /\ d.v < 0

\* d > 0.0
GtZero(d) == d.k = "num" /\ d.v > 0

\* d > 999.0
GtMaxTempo(d) == d.k = "num" /\ d.v > 999 * 10

Abs(i) == IF i < 0 THEN 0 - i ELSE i

\* std::to_string(double): printf("%f"), six digits after the point
ToStringDouble(d) ==
    IF d.k = "nan" THEN Lit("nan")
    ELSE Lit((IF d.v < 0 THEN "-" ELSE "") \o ToString(Abs(d.v) \div 10)
             \o "." \o ToString(Abs(d.v) % 10) \o "00000")

\* ostream << double: printf("%g"), no trailing zeros and no bare point
StreamDouble(d) ==
    IF d.k = "nan" THEN Lit("nan")
    ELSE Lit((IF d.v < 0 THEN "-" ELSE "") \o ToString(Abs(d.v) \div 10)
             \o (IF Abs(d.v) % 10 = 0 THEN "" ELSE "." \o ToString(Abs(d.v) % 10)))

(***************************************************************************)
(* std::filesystem::path.  A path is a sequence of segments and a flag     *)
(* telling whether it starts at the root; a segment is a sequence of       *)
(* tokens, a token being "." or a word without a dot.                      *)
(***************************************************************************)
Dot == "."

DotDot == <<Dot, Dot>>

RelPath(segs) == [abs |-> FALSE, segs |-> segs]

AbsPath(segs) == [abs |-> TRUE, segs |-> segs]

EmptyPath == RelPath(<<>>)

\* path.empty()
PathEmpty(p) == ~p.abs /\ p.segs = <<>>

Front(s) == SubSeq(s, 1, Len(s) - 1)

Last(s) == s[Len(s)]

\* path.parent_path()
ParentPath(p) == IF p.segs = <<>> THEN p ELSE [p EXCEPT !.segs = Front(p.segs)]

\* path.filename()
Filename(p) == IF p.segs = <<>> THEN <<>> ELSE Last(p.segs)

LastDot(seg) == IF \E i \in 1..Len(seg) : seg[i] = Dot
                THEN CHOOSE i \in 1..Len(seg) :
                        /\ seg[i] = Dot
                        /\ \A j \in (i + 1)..Len(seg) : seg[j] # Dot
                ELSE 0

\* path.extension(): from the last dot of the filename on; none for ".", ".."
\* and for a filename whose only dot comes first
Extension(p) ==
    LET f == Filename(p) IN
    IF f = <<Dot>> \/ f = DotDot \/ LastDot(f) <= 1 THEN <<>>
    ELSE SubSeq(f, LastDot(f), Len(f))

ExtDawproject == <<Dot, "dawproject">>

ExtXml == <<Dot, "xml">>

\* an engine that takes every extension
BadExtension_NoCheck(p) == FALSE

\* extension != ".dawproject" && extension != ".xml"
BadExtension(p) == Extension(p) # ExtDawproject /\ Extension(p) # ExtXml

\* std::filesystem::current_path()
Cwd == << <<"work">>, <<"proj">> >>

RECURSIVE Normal(_, _)
Normal(done, rest) ==
    IF rest = <<>> THEN done
    ELSE IF Head(rest) = <<Dot>> THEN Normal(done, Tail(rest))
    ELSE IF Head(rest) = DotDot
         THEN Normal(IF done = <<>> THEN done ELSE Front(done), Tail(rest))
    ELSE Normal(Append(done, Head(rest)), Tail(rest))

\* std::filesystem::weakly_canonical(path): absolute, "." and ".." resolved
\* (the model has no symbolic links)
WeaklyCanonical(p) ==
    AbsPath(Normal(<<>>, IF p.abs THEN p.segs ELSE Cwd \o p.segs))

\* the file-system object a path names
Resolve(p) == WeaklyCanonical(p).segs

\* parentPath.string().find("..") != npos: two dots in a row can only lie
\* inside one segment, the separator being '/'
ContainsDotDot(p) ==
    \E k \in 1..Len(p.segs) :
        \E i \in 1..(Len(p.segs[k]) - 1) :
            p.segs[k][i] = Dot /\ p.segs[k][i + 1] = Dot

RECURSIVE Concat(_)
Concat(strs) == IF strs = <<>> THEN <<>> ELSE Head(strs) \o Concat(Tail(strs))

\* path.string(): the segments, '/' between them
PathString(p) ==
    Concat([k \in 1..Len(p.segs) |->
               (IF k > 1 \/ p.abs THEN Lit("/") ELSE <<>>)
               \o Concat([i \in 1..Len(p.segs[k]) |-> Lit(p.segs[k][i])])])

(***************************************************************************)
(* The paths the callers pass in.                                          *)
(***************************************************************************)
\* "out.dawproject"
PathOut == RelPath(<< <<"out", Dot, "dawproject">> >>)

\* "../evil.xml"
PathEvil == RelPath(<< DotDot, <<"evil", Dot, "xml">> >>)

\* "sub/out.xml"
PathSub == RelPath(<< <<"sub">>, <<"out", Dot, "xml">> >>)

\* "notes.txt"
PathTxt == RelPath(<< <<"notes", Dot, "txt">> >>)

\* "sub/notes.txt"
PathSubTxt == RelPath(<< <<"sub">>, <<"notes", Dot, "txt">> >>)

\* "a..b/x.xml": a directory whose name holds two dots
PathDots == RelPath(<< <<"a", Dot, Dot, "b">>, <<"x", Dot, "xml">> >>)

ReaderPaths == {EmptyPath, PathOut, PathSub}

WriterPaths == {EmptyPath, PathOut, PathTxt}

SavePaths == {EmptyPath, PathOut, PathEvil, PathSub, PathTxt, PathDots}

TargetPaths == {PathOut, PathTxt, PathSubTxt}

\* "sub"
PathDir == ParentPath(PathSub)

\* "pack.zip"
PathZip == RelPath(<< <<"pack", Dot, "zip">> >>)

\* "song.xml"
PathXml == RelPath(<< <<"song", Dot, "xml">> >>)

LoadPaths == {EmptyPath, PathOut, PathXml, PathTxt, PathZip, PathDir}

InputPaths ==
    ReaderPaths \cup WriterPaths \cup SavePaths \cup TargetPaths \cup LoadPaths

(***************************************************************************)
(* The file system: every absolute path the inputs can name has a node,    *)
(* which is nothing, a directory or a regular file with owner permissions  *)
(* and content.                                                            *)
(***************************************************************************)
Universe ==
    UNION { { SubSeq(Resolve(p), 1, n) : n \in 0..Len(Resolve(p)) } :
            p \in InputPaths \ {EmptyPath} }

NoNode == [kind |-> "none", r |-> FALSE, w |-> FALSE, data |-> <<>>]

DirNode == [kind |-> "dir", r |-> TRUE, w |-> TRUE, data |-> <<>>]

FileNode(r, w, data) == [kind |-> "file", r |-> r, w |-> w, data |-> data]

\* std::filesystem::exists(path)
Exists(f, p) == f[Resolve(p)].kind # "none"

\* std::filesystem::is_regular_file(path)
IsRegularFile(f, p) == f[Resolve(p)].kind = "file"

\* std::ifstream(path).good()
CanOpenRead(f, p) == f[Resolve(p)].kind = "file" /\ f[Resolve(p)].r

\* std::filesystem::file_size(path)
FileSize(f, p) == Size(f[Resolve(p)].data)

\* an output stream that empties the file however it is opened
OpenWrite_Truncates(f, p, trunc) ==
    LET a == Resolve(p) IN
    IF f[a].kind = "file"
    THEN IF f[a].w
         THEN [good |-> TRUE, fs |-> [f EXCEPT ![a].data = <<>>]]
         ELSE [good |-> FALSE, fs |-> f]
    ELSE IF f[a].kind = "dir" \/ a = <<>> THEN [good |-> FALSE, fs |-> f]
    ELSE IF f[Front(a)].kind = "dir" /\ f[Front(a)].w
         THEN [good |-> TRUE, fs |-> [f EXCEPT ![a] = FileNode(TRUE, TRUE, <<>>)]]
         ELSE [good |-> FALSE, fs |-> f]

\* std::ofstream(path, out | app) and std::ofstream(path, out | trunc):
\* opens an existing writable regular file (emptying it under trunc) or
\* creates an empty one in an existing writable directory
OpenWrite(f, p, trunc) ==
    LET a == Resolve(p) IN
    IF f[a].kind = "file"
    THEN IF f[a].w
         THEN [good |-> TRUE,
               fs |-> IF trunc THEN [f EXCEPT ![a].data = <<>>] ELSE f]
         ELSE [good |-> FALSE, fs |-> f]
    ELSE IF f[a].kind = "dir" \/ a = <<>> THEN [good |-> FALSE, fs |-> f]
    ELSE IF f[Front(a)].kind = "dir" /\ f[Front(a)].w
         THEN [good |-> TRUE, fs |-> [f EXCEPT ![a] = FileNode(TRUE, TRUE, <<>>)]]
         ELSE [good |-> FALSE, fs |-> f]

\* file << content
WriteData(f, p, content) == [f EXCEPT ![Resolve(p)].data = content]

\* std::filesystem::create_directories(path, ec): makes every missing
\* directory of the path, from the root down; ec is set when a component is
\* not a directory or cannot be created
RECURSIVE MkDirs(_, _, _)
MkDirs(f, a, n) ==
    IF n > Len(a) THEN [ok |-> TRUE, fs |-> f]
    ELSE LET pre == SubSeq(a, 1, n) IN
         IF f[pre].kind = "dir" THEN MkDirs(f, a, n + 1)
         ELSE IF f[pre].kind = "file" \/ n = 0 THEN [ok |-> FALSE, fs |-> f]
         ELSE IF f[Front(pre)].w
              THEN MkDirs([f EXCEPT ![pre] = DirNode], a, n + 1)
              ELSE [ok |-> FALSE, fs |-> f]

CreateDirectories(f, p) == MkDirs(f, Resolve(p), 0)

\* the nodes other programs put at a path
ExternalNodes ==
    { NoNode, DirNode,
      FileNode(TRUE, TRUE, Lit("old content")),
      FileNode(FALSE, FALSE, Lit("old content")) }

\* the paths other programs change: the target file and the "sub" directory
TargetFile == { Resolve(PathOut) }

TargetAndSub == { Resolve(PathOut), Resolve(ParentPath(PathSub)) }

HasChild(f, a) ==
    \E b \in Universe :
        Len(b) = Len(a) + 1 /\ SubSeq(b, 1, Len(a)) = a /\ f[b].kind # "none"

(***************************************************************************)
(* The data transfer objects (data_access_engine.h).  The two time stamps  *)
(* of ProjectInfo are wall-clock readings and are left out.                *)
(***************************************************************************)
NullOpt == [has |-> FALSE, val |-> <<>>]

\* ProjectInfo{}
DefaultProjectInfo ==
    [title |-> <<>>, artist |-> <<>>, album |-> <<>>, genre |-> <<>>,
     tempo |-> Num(0), timeSignature |-> <<>>, key |-> <<>>]

\* TrackInfo{}
DefaultTrackInfo ==
    [id |-> <<>>, name |-> <<>>, type |-> "Audio", color |-> <<>>,
     volume |-> Num(0), pan |-> Num(0), muted |-> FALSE, soloed |-> FALSE,
     orderIndex |-> 0, instrumentId |-> NullOpt, audioFile |-> NullOpt]

\* ClipInfo{}
DefaultClipInfo ==
    [id |-> <<>>, name |-> <<>>, trackId |-> <<>>, startTime |-> Num(0),
     duration |-> Num(0), playbackRate |-> Num(0), fadeInTime |-> Num(0),
     fadeOutTime |-> Num(0), contentId |-> NullOpt, audioFile |-> NullOpt]

\* ValidationResult{}
NoValidation ==
    [isValid |-> FALSE, errors |-> <<>>, warnings |-> <<>>, context |-> <<>>]

(***************************************************************************)
(* Result<T>.  One record stands for every T: the field of the payload's   *)
(* type carries the value, the others stay default-constructed.            *)
(***************************************************************************)
NoValue ==
    [num |-> 0, info |-> DefaultProjectInfo, track |-> DefaultTrackInfo,
     clip |-> DefaultClipInfo, list |-> <<>>, validation |-> NoValidation]

\* a makeError that drops the message
MakeError_NoMessage(message) ==
    [success |-> FALSE, value |-> NoValue, errorMessage |-> <<>>,
     errorCode |-> 0 - 1]

\* Result<T>::makeError(message): {false, T{}, message, -1}
MakeError(message) ==
    [success |-> FALSE, value |-> NoValue, errorMessage |-> message,
     errorCode |-> 0 - 1]

\* Result<T>::makeSuccess(value): {true, value, "", 0}
MakeSuccess(v) ==
    [success |-> TRUE, value |-> v, errorMessage |-> <<>>, errorCode |-> 0]

\* what a call returning bool or a pointer gives back: true / non-null
Plain(b) ==
    [success |-> b, value |-> NoValue, errorMessage |-> <<>>, errorCode |-> 0]

Call(op, path, info, track, clip) ==
    [op |-> op, path |-> path, info |-> info, track |-> track, clip |-> clip,
     trackId |-> <<>>, message |-> <<>>, other |-> NoValidation,
     ptr |-> 0, size |-> 0, alignment |-> 0]

CallOp(op) ==
    Call(op, EmptyPath, DefaultProjectInfo, DefaultTrackInfo, DefaultClipInfo)

(***************************************************************************)
(* ProjectReaderImpl                                                       *)
(***************************************************************************)
\* no reader: the null pointer
NoReader ==
    [alive |-> FALSE, filePath_ |-> EmptyPath, isOpen_ |-> FALSE,
     projectInfo_ |-> DefaultProjectInfo, tracks_ |-> <<>>, clips_ |-> <<>>,
     currentTrackIndex_ |-> 0, currentClipIndex_ |-> 0]

\* ProjectReaderImpl(path): closed, both indices zero, nothing loaded
NewReader(path) == [NoReader EXCEPT !.alive = TRUE, !.filePath_ = path]

\* the values an uninitialised int member of "TrackInfo track;" may hold
GarbageInts == {0, 7}

\* open() that builds a track without an id
SampleTrack_NoId(m, s, o) ==
    [DefaultTrackInfo EXCEPT
        !.name = Lit("Audio Track 1"), !.type = "Audio",
        !.volume = Num(10), !.pan = Num(0),
        !.muted = m, !.soloed = s, !.orderIndex = o]

\* the track open() builds: muted, soloed and orderIndex are never assigned
SampleTrack(m, s, o) ==
    [DefaultTrackInfo EXCEPT
        !.id = Lit("track_1"), !.name = Lit("Audio Track 1"),
        !.type = "Audio", !.volume = Num(10), !.pan = Num(0),
        !.muted = m, !.soloed = s, !.orderIndex = o]

\* the metadata open() assigns; album, genre and key keep what they held
SampleProject(info) ==
    [info EXCEPT
        !.title = Lit("Sample Project"), !.tempo = Num(1200),
        !.artist = Lit("Test Artist"), !.timeSignature = Lit("4/4")]

\* open() without its checks
ReaderFileOk_NoCheck(f, path) == TRUE

\* the three checks open() makes before it opens
ReaderFileOk(f, path) ==
    Exists(f, path) /\ IsRegularFile(f, path) /\ CanOpenRead(f, path)

\* what open() loads once the checks passed
ReaderLoaded(r, m, s, o) ==
    [r EXCEPT
        !.isOpen_ = TRUE,
        !.projectInfo_ = SampleProject(r.projectInfo_),
        !.tracks_ = <<SampleTrack(m, s, o)>>,
        !.clips_ = <<>>]

\* close() that forgets the cursors
ReaderClosed_KeepsCursor(r) == [r EXCEPT !.isOpen_ = FALSE]

\* close()
ReaderClosed(r) ==
    [r EXCEPT !.isOpen_ = FALSE, !.currentTrackIndex_ = 0,
              !.currentClipIndex_ = 0]

\* the read methods without the open check
ReaderNotOpen_Skipped(r) == FALSE

\* if (!isOpen_) return makeError("Reader not open")
ReaderNotOpen(r) == ~r.isOpen_

\* readNextTrack() that does not advance
NextTrackIndex_Stuck(i) == i

\* readNextTrack() that skips a record
NextTrackIndex_Twice(i) == i + 2

\* currentTrackIndex_++
NextTrackIndex(i) == i + 1

\* currentClipIndex_++
NextClipIndex(i) == i + 1

\* hasMoreTracks()
HasMoreTracks == reader.currentTrackIndex_ < Len(reader.tracks_)

\* hasMoreClips()
HasMoreClips == reader.currentClipIndex_ < Len(reader.clips_)

\* getTrackCount()
GetTrackCount == Len(reader.tracks_)

\* getClipCount()
GetClipCount == Len(reader.clips_)

\* DataAccessEngineImpl::createReader(path): null only for an empty path
CreateReader(path) ==
    /\ ~reader.alive
    /\ reader' = IF PathEmpty(path) THEN NoReader ELSE NewReader(path)
    /\ UNCHANGED <<memory, cv, tasks>>
    /\ call' = [CallOp("createReader") EXCEPT !.path = path]
    /\ res' = Plain(~PathEmpty(path))
    /\ hist' = [hist EXCEPT !.sessions = 0, !.readLog = <<>>, !.readBefore = 0]
    /\ UNCHANGED <<fs, writer>>

\* ~ProjectReaderImpl(): closes when open
DestroyReader ==
    /\ reader.alive
    /\ reader' = NoReader
    /\ UNCHANGED <<memory, cv, tasks>>
    /\ call' = CallOp("destroyReader")
    /\ res' = Plain(TRUE)
    /\ UNCHANGED <<fs, writer, hist>>

\* ProjectReaderImpl::open()
ReaderOpen ==
    /\ reader.alive
    /\ hist.sessions < MaxSessions
    /\ UNCHANGED <<memory, cv, tasks>>
    /\ call' = CallOp("reader.open")
    /\ IF reader.isOpen_
       THEN /\ res' = Plain(TRUE)
            /\ UNCHANGED <<reader, hist>>
       ELSE IF ~ReaderFileOk(fs, reader.filePath_)
       THEN /\ res' = Plain(FALSE)
            /\ UNCHANGED <<reader, hist>>
       ELSE /\ \E m \in BOOLEAN, s \in BOOLEAN, o \in GarbageInts :
                 reader' = ReaderLoaded(reader, m, s, o)
            /\ res' = Plain(TRUE)
            /\ hist' = [hist EXCEPT !.sessions = @ + 1, !.readLog = <<>>]
    /\ UNCHANGED <<fs, writer>>

\* ProjectReaderImpl::close()
ReaderClose ==
    /\ reader.alive
    /\ reader' = ReaderClosed(reader)
    /\ UNCHANGED <<memory, cv, tasks>>
    /\ call' = CallOp("reader.close")
    /\ res' = Plain(TRUE)
    /\ hist' = IF reader.isOpen_
               THEN [hist EXCEPT !.readBefore = Len(hist.readLog)]
               ELSE hist
    /\ UNCHANGED <<fs, writer>>

\* ProjectReaderImpl::readProjectInfo()
ReadProjectInfo ==
    /\ reader.alive
    /\ UNCHANGED <<memory, cv, tasks>>
    /\ call' = CallOp("readProjectInfo")
    /\ res' = IF ReaderNotOpen(reader)
              THEN MakeError(Lit("Reader not open"))
              ELSE IF IsEmpty(reader.projectInfo_.title)
              THEN MakeError(Lit("Project title is empty"))
              ELSE IF LeZero(reader.projectInfo_.tempo)
              THEN MakeError(Lit("Invalid project tempo: ")
                             \o ToStringDouble(reader.projectInfo_.tempo))
              ELSE MakeSuccess([NoValue EXCEPT !.info = reader.projectInfo_])
    /\ UNCHANGED <<fs, reader, writer, hist>>

\* ProjectReaderImpl::readNextTrack()
ReadNextTrack ==
    /\ reader.alive
    /\ UNCHANGED <<memory, cv, tasks>>
    /\ call' = CallOp("readNextTrack")
    /\ IF ReaderNotOpen(reader)
       THEN /\ res' = MakeError(Lit("Reader not open"))
            /\ UNCHANGED <<reader, hist>>
       ELSE IF reader.currentTrackIndex_ >= Len(reader.tracks_)
       THEN /\ res' = MakeError(Lit("No more tracks available"))
            /\ UNCHANGED <<reader, hist>>
       ELSE IF reader.tracks_ = <<>>
       THEN /\ res' = MakeError(Lit("No tracks loaded"))
            /\ UNCHANGED <<reader, hist>>
       ELSE LET track == reader.tracks_[reader.currentTrackIndex_ + 1] IN
            /\ reader' = [reader EXCEPT !.currentTrackIndex_ = NextTrackIndex(@)]
            /\ IF IsEmpty(track.id)
               THEN /\ res' = MakeError(Lit("Track has empty ID"))
                    /\ UNCHANGED hist
               ELSE /\ res' = MakeSuccess([NoValue EXCEPT !.track = track])
                    /\ hist' = [hist EXCEPT !.readLog = Append(@, track)]
    /\ UNCHANGED <<fs, writer>>

\* ProjectReaderImpl::readNextClip()
ReadNextClip ==
    /\ reader.alive
    /\ UNCHANGED <<memory, cv, tasks>>
    /\ call' = CallOp("readNextClip")
    /\ IF ReaderNotOpen(reader)
       THEN /\ res' = MakeError(Lit("Reader not open"))
            /\ UNCHANGED reader
       ELSE IF reader.currentClipIndex_ >= Len(reader.clips_)
       THEN /\ res' = MakeError(Lit("No more clips available"))
            /\ UNCHANGED reader
       ELSE IF reader.clips_ = <<>>
       THEN /\ res' = MakeError(Lit("No clips loaded"))
            /\ UNCHANGED reader
       ELSE LET clip == reader.clips_[reader.currentClipIndex_ + 1] IN
            /\ reader' = [reader EXCEPT !.currentClipIndex_ = NextClipIndex(@)]
            /\ res' = IF IsEmpty(clip.id)
                      THEN MakeError(Lit("Clip has empty ID"))
                      ELSE IF LtZero(clip.startTime)
                      THEN MakeError(Lit("Clip has invalid start time: ")
                                     \o ToStringDouble(clip.startTime))
                      ELSE MakeSuccess([NoValue EXCEPT !.clip = clip])
    /\ UNCHANGED <<fs, writer, hist>>

(***************************************************************************)
(* Other programs: a file or directory appears, disappears or changes its  *)
(* permissions.  A node is only put where its parent is a directory, and   *)
(* only taken away while nothing lies below it.                            *)
(***************************************************************************)
ExternalChange(paths) ==
    /\ hist.external < MaxExternal
    /\ \E a \in paths, n \in ExternalNodes :
          /\ fs[a] # n
          /\ fs[Front(a)].kind = "dir"
          /\ n.kind # "dir" => ~HasChild(fs, a)
          /\ fs' = [fs EXCEPT ![a] = n]
    /\ UNCHANGED <<memory, cv, tasks>>
    /\ call' = CallOp("external")
    /\ res' = Plain(TRUE)
    /\ hist' = [hist EXCEPT !.external = @ + 1]
    /\ UNCHANGED <<reader, writer>>

(***************************************************************************)
(* ProjectWriterImpl                                                       *)
(***************************************************************************)
\* no writer: the null pointer
NoWriter ==
    [alive |-> FALSE, filePath_ |-> EmptyPath, isOpen_ |-> FALSE,
     xmlBuffer_ |-> <<>>]

\* ProjectWriterImpl(path): closed, empty buffer
NewWriter(path) == [NoWriter EXCEPT !.alive = TRUE, !.filePath_ = path]

\* the 10MB limit of the XML buffer
BufferLimit == 10 * 1024 * 1024

\* the longest artist name writeProjectInfo takes
MaxArtistLength == 256

\* what open() puts in the buffer
XmlHeader == Lit("<?xml version=\"1.0\" encoding=\"UTF-8\"?>\n<Project>\n")

\* what finalize() appends
XmlFooter == Lit("</Project>\n")

\* the fragment writeProjectInfo builds
ProjectXml(project) ==
    Lit("  <ProjectInfo title=\"") \o project.title \o Lit("\" tempo=\"")
    \o ToStringDouble(project.tempo) \o Lit("\" artist=\"") \o project.artist
    \o Lit("\"/>\n")

\* the fragment writeTrack builds
TrackXml(track) ==
    Lit("  <Track id=\"") \o track.id \o Lit("\" name=\"") \o track.name
    \o Lit("\"/>\n")

\* the fragment writeClip builds
ClipXml(clip) ==
    Lit("  <Clip id=\"") \o clip.id \o Lit("\" start=\"")
    \o ToStringDouble(clip.startTime) \o Lit("\"/>\n")

\* the write methods without the buffer limit
ExceedsLimit_Never(buffer, fragment) == FALSE

\* xmlBuffer_.size() + fragment.size() > 10 * 1024 * 1024
ExceedsLimit(buffer, fragment) == Size(buffer) + Size(fragment) > BufferLimit

\* the write methods without the open check
WriterNotOpen_Skipped(w) == FALSE

\* if (!isOpen_) return makeError("Writer not open")
WriterNotOpen(w) == ~w.isOpen_

\* a write method that reports the running total
BytesWritten_Total(buffer, fragment) == Size(buffer) + Size(fragment)

\* size_t bytesWritten = fragment.length()
BytesWritten(buffer, fragment) == Size(fragment)

\* writeProjectInfo without the limit on the artist name
ProjectInfoError_NoArtist(project) ==
    IF IsEmpty(project.title)
    THEN Lit("Project title cannot be empty")
    ELSE IF LeZero(project.tempo) \/ GtMaxTempo(project.tempo)
    THEN Lit("Invalid tempo: ") \o ToStringDouble(project.tempo)
    ELSE <<>>

\* the validation of writeProjectInfo: the error it returns, or none
ProjectInfoError(project) ==
    IF IsEmpty(project.title)
    THEN Lit("Project title cannot be empty")
    ELSE IF LeZero(project.tempo) \/ GtMaxTempo(project.tempo)
    THEN Lit("Invalid tempo: ") \o ToStringDouble(project.tempo)
    ELSE IF Size(project.artist) > MaxArtistLength
    THEN Lit("Artist name too long: ") \o Lit(ToString(Size(project.artist)))
         \o Lit(" characters")
    ELSE <<>>

\* the validation of writeTrack
TrackError(track) ==
    IF IsEmpty(track.id) THEN Lit("Track ID cannot be empty")
    ELSE IF IsEmpty(track.name) THEN Lit("Track name cannot be empty")
    ELSE <<>>

\* the validation of writeClip
ClipError(clip) ==
    IF IsEmpty(clip.id) THEN Lit("Clip ID cannot be empty")
    ELSE IF LtZero(clip.startTime) THEN Lit("Clip start time cannot be negative")
    ELSE <<>>

\* the part the three write methods share: not open, invalid record, buffer
\* limit, append.  Gives the result and the buffer afterwards.
WriteFragment(w, invalid, fragment) ==
    IF WriterNotOpen(w)
    THEN [res |-> MakeError(Lit("Writer not open")), buffer |-> w.xmlBuffer_]
    ELSE IF invalid # <<>>
    THEN [res |-> MakeError(invalid), buffer |-> w.xmlBuffer_]
    ELSE IF ExceedsLimit(w.xmlBuffer_, fragment)
    THEN [res |-> MakeError(Lit("XML buffer size limit exceeded")),
          buffer |-> w.xmlBuffer_]
    ELSE [res |-> MakeSuccess([NoValue EXCEPT
                      !.num = BytesWritten(w.xmlBuffer_, fragment)]),
          buffer |-> w.xmlBuffer_ \o fragment]

\* a write call: the model follows at most MaxWrites successful ones a session
Written(c, out) ==
    /\ out.res.success => Len(hist.writeLog) < MaxWrites
    /\ UNCHANGED <<memory, cv, tasks>>
    /\ call' = c
    /\ res' = out.res
    /\ writer' = [writer EXCEPT !.xmlBuffer_ = out.buffer]
    /\ hist' = IF out.res.success
               THEN [hist EXCEPT !.writeLog = Append(@, out.res.value.num)]
               ELSE hist
    /\ UNCHANGED <<fs, reader>>

\* ProjectWriterImpl::writeProjectInfo(project)
WriteProjectInfo(project) ==
    /\ writer.alive
    /\ Written([CallOp("writeProjectInfo") EXCEPT !.info = project],
               WriteFragment(writer, ProjectInfoError(project), ProjectXml(project)))

\* ProjectWriterImpl::writeTrack(track)
WriteTrack(track) ==
    /\ writer.alive
    /\ Written([CallOp("writeTrack") EXCEPT !.track = track],
               WriteFragment(writer, TrackError(track), TrackXml(track)))

\* ProjectWriterImpl::writeClip(clip)
WriteClip(clip) ==
    /\ writer.alive
    /\ Written([CallOp("writeClip") EXCEPT !.clip = clip],
               WriteFragment(writer, ClipError(clip), ClipXml(clip)))

\* the directory step createWriter and open() share: the parent directory is
\* made when the path has one and it does not exist
EnsureParent(f, path) ==
    LET parentPath == ParentPath(path) IN
    IF ~PathEmpty(parentPath) /\ ~Exists(f, parentPath)
    THEN CreateDirectories(f, parentPath)
    ELSE [ok |-> TRUE, fs |-> f]

\* DataAccessEngineImpl::createWriter(path)
CreateWriter(path) ==
    /\ ~writer.alive
    /\ UNCHANGED <<memory, cv, tasks>>
    /\ call' = [CallOp("createWriter") EXCEPT !.path = path]
    /\ IF PathEmpty(path) \/ BadExtension(path)
       THEN /\ writer' = NoWriter
            /\ res' = Plain(FALSE)
            /\ UNCHANGED fs
       ELSE LET made == EnsureParent(fs, path) IN
            /\ fs' = made.fs
            /\ writer' = IF made.ok THEN NewWriter(path) ELSE NoWriter
            /\ res' = Plain(made.ok)
    /\ hist' = [hist EXCEPT !.writeLog = <<>>, !.finalized = 0]
    /\ UNCHANGED reader

\* ~ProjectWriterImpl(): closes when open
DestroyWriter ==
    /\ writer.alive
    /\ writer' = NoWriter
    /\ UNCHANGED <<memory, cv, tasks>>
    /\ call' = CallOp("destroyWriter")
    /\ res' = Plain(TRUE)
    /\ UNCHANGED <<fs, reader, hist>>

\* ProjectWriterImpl::open()
WriterOpen ==
    /\ writer.alive
    /\ UNCHANGED <<memory, cv, tasks>>
    /\ call' = CallOp("writer.open")
    /\ IF writer.isOpen_
       THEN /\ res' = Plain(TRUE)
            /\ UNCHANGED <<fs, writer, hist>>
       ELSE LET made == EnsureParent(fs, writer.filePath_)
                testFile == OpenWrite(made.fs, writer.filePath_, FALSE)
            IN  IF ~made.ok
                THEN /\ res' = Plain(FALSE)
                     /\ fs' = made.fs
                     /\ UNCHANGED <<writer, hist>>
                ELSE IF ~testFile.good
                THEN /\ res' = Plain(FALSE)
                     /\ fs' = testFile.fs
                     /\ UNCHANGED <<writer, hist>>
                ELSE /\ res' = Plain(TRUE)
                     /\ fs' = testFile.fs
                     /\ writer' = [writer EXCEPT !.isOpen_ = TRUE,
                                                 !.xmlBuffer_ = XmlHeader]
                     /\ hist' = [hist EXCEPT !.writeLog = <<>>, !.finalized = 0]
    /\ UNCHANGED reader

\* ProjectWriterImpl::close()
WriterClose ==
    /\ writer.alive
    /\ writer' = [writer EXCEPT !.isOpen_ = FALSE, !.xmlBuffer_ = <<>>]
    /\ UNCHANGED <<memory, cv, tasks>>
    /\ call' = CallOp("writer.close")
    /\ res' = Plain(TRUE)
    /\ UNCHANGED <<fs, reader, hist>>

\* finalize() that takes the length before it closes the root element
TotalBytes_BeforeFooter(buffer) == Size(buffer) - Size(XmlFooter)

\* size_t totalBytes = xmlBuffer_.length()
TotalBytes(buffer) == Size(buffer)

\* ProjectWriterImpl::finalize(); the stream may fail while the buffer is
\* written (file.fail()), which leaves the truncated file behind
Finalize ==
    /\ writer.alive
    /\ UNCHANGED <<memory, cv, tasks>>
    /\ call' = CallOp("finalize")
    /\ IF WriterNotOpen(writer)
       THEN /\ res' = MakeError(Lit("Writer not open"))
            /\ UNCHANGED <<fs, writer, hist>>
       ELSE LET buffer == writer.xmlBuffer_ \o XmlFooter
                file == OpenWrite(fs, writer.filePath_, TRUE)
            IN  /\ hist.finalizes < MaxFinalize
                /\ writer' = [writer EXCEPT !.xmlBuffer_ = buffer]
                /\ hist' = [hist EXCEPT !.finalizes = @ + 1,
                                        !.finalized = @ + 1]
                /\ IF ~file.good
                   THEN /\ res' = MakeError(Lit("Failed to create output file"))
                        /\ fs' = file.fs
                   ELSE \E fail \in BOOLEAN :
                        IF fail
                        THEN /\ res' = MakeError(Lit("Failed to write XML data to file"))
                             /\ fs' = file.fs
                        ELSE /\ fs' = WriteData(file.fs, writer.filePath_, buffer)
                             /\ res' = IF ~Exists(fs', writer.filePath_)
                                       THEN MakeError(Lit("Output file was not created"))
                                       ELSE MakeSuccess([NoValue EXCEPT
                                                !.num = TotalBytes(buffer)])
    /\ UNCHANGED reader

(***************************************************************************)
(* DataAccessEngineImpl::saveProject                                       *)
(***************************************************************************)
\* what saveProject writes to the file
SavedContent(project) ==
    Lit("<?xml version=\"1.0\" encoding=\"UTF-8\"?>\n")
    \o Lit("<Project title=\"") \o project.title \o Lit("\" tempo=\"")
    \o StreamDouble(project.tempo) \o Lit("\">\n")
    \o Lit("  <!-- Generated by DAWProject Data Access Engine -->\n")
    \o Lit("</Project>\n")

\* the security check of saveProject: the parent of the weakly canonical
\* path holds ".."
TraversalRejected(path) ==
    ContainsDotDot(ParentPath(WeaklyCanonical(path)))

\* the input validation of saveProject, in the order the code makes it: the
\* error it returns, or none
SaveInputError(project, path) ==
    IF PathEmpty(path) THEN Lit("Output path cannot be empty")
    ELSE IF IsEmpty(project.title) THEN Lit("Project title cannot be empty")
    ELSE IF LeZero(project.tempo) \/ GtMaxTempo(project.tempo)
    THEN Lit("Invalid tempo: ") \o ToStringDouble(project.tempo)
    ELSE IF TraversalRejected(path)
    THEN Lit("Invalid path: contains parent directory references")
    ELSE IF BadExtension(path)
    THEN Lit("Invalid file extension: ") \o PathString(RelPath(<<Extension(path)>>))
         \o Lit(". Expected .dawproject or .xml")
    ELSE <<>>

\* saveProject that makes the directories of the path before it validates
FsAfterRejection_DirsFirst(f, path) ==
    CreateDirectories(f, ParentPath(WeaklyCanonical(path))).fs

\* the file system when saveProject returns from its input validation: no
\* file-system call changes anything before the last check
FsAfterRejection(f, path) == f

\* ec.message() of a failed create_directories
DirectoryErrorMessage == Lit("Not a directory")

\* DataAccessEngineImpl::saveProject(project, tracks, clips, path); tracks and
\* clips are not used
SaveProject(project, path) ==
    /\ UNCHANGED <<memory, cv, tasks>>
    /\ call' = [CallOp("saveProject") EXCEPT !.info = project, !.path = path]
    /\ IF SaveInputError(project, path) # <<>>
       THEN /\ res' = MakeError(SaveInputError(project, path))
            /\ fs' = FsAfterRejection(fs, path)
       ELSE LET made == CreateDirectories(fs, ParentPath(WeaklyCanonical(path)))
                file == OpenWrite(made.fs, path, TRUE)
            IN  IF ~made.ok
                THEN /\ res' = MakeError(Lit("Failed to create directories: ")
                                         \o DirectoryErrorMessage)
                     /\ fs' = made.fs
                ELSE IF ~file.good
                THEN /\ res' = MakeError(Lit("Failed to create file: ")
                                         \o PathString(path))
                     /\ fs' = file.fs
                ELSE \E fail \in BOOLEAN :
                     IF fail
                     THEN /\ res' = MakeError(Lit("Failed to write project data to file"))
                          /\ fs' = file.fs
                     ELSE /\ fs' = WriteData(file.fs, path, SavedContent(project))
                          /\ res' = IF ~Exists(fs', path)
                                    THEN MakeError(Lit("File was not created successfully"))
                                    ELSE MakeSuccess([NoValue EXCEPT
                                             !.num = FileSize(fs', path)])
    /\ UNCHANGED <<reader, writer, hist>>

(***************************************************************************)
(* DataAccessEngineImpl: loading and validating                            *)
(***************************************************************************)
\* MAX_FILE_SIZE of loadProjectInfo
MAX_FILE_SIZE == 100 * 1024 * 1024

\* MAX_VALIDATION_SIZE of validateFile
MAX_VALIDATION_SIZE == 50 * 1024 * 1024

\* MAX_PROJECT_FILE_SIZE of isValidProjectFile
MAX_PROJECT_FILE_SIZE == 100 * 1024 * 1024

\* the longest track id loadClips takes
MaxTrackIdLength == 256

\* (perms & owner_read) != none
OwnerRead(f, p) == f[Resolve(p)].r

\* the checks loadProjectInfo, loadTracks and loadClips share, in a message
\* without the path: the error they give, or none
MissingFileError(f, path) ==
    IF ~Exists(f, path) THEN Lit("File does not exist: ")
    ELSE IF ~IsRegularFile(f, path) THEN Lit("Path is not a regular file: ")
    ELSE <<>>

\* the same checks with a message that leaves the path out
FileError_NoPath(f, path) == MissingFileError(f, path)

\* "File does not exist: " + path.string()
FileError(f, path) ==
    IF MissingFileError(f, path) = <<>> THEN <<>>
    ELSE MissingFileError(f, path) \o PathString(path)

\* the project info loadProjectInfo returns
LoadedProjectInfo ==
    [DefaultProjectInfo EXCEPT !.title = Lit("Default Project"),
                               !.artist = Lit("Unknown Artist"),
                               !.tempo = Num(1200),
                               !.timeSignature = Lit("4/4")]

\* the result of loadProjectInfo(path)
LoadProjectInfoResult(f, path) ==
    IF PathEmpty(path) THEN MakeError(Lit("Path cannot be empty"))
    ELSE IF FileError(f, path) # <<>> THEN MakeError(FileError(f, path))
    ELSE IF FileSize(f, path) > MAX_FILE_SIZE
    THEN MakeError(Lit("File too large: ") \o Lit(ToString(FileSize(f, path)))
                   \o Lit(" bytes"))
    ELSE MakeSuccess([NoValue EXCEPT !.info = LoadedProjectInfo])

\* the result of loadTracks(path)
LoadTracksResult(f, path) ==
    IF PathEmpty(path) THEN MakeError(Lit("Path cannot be empty"))
    ELSE IF FileError(f, path) # <<>> THEN MakeError(FileError(f, path))
    ELSE IF ~CanOpenRead(f, path)
    THEN MakeError(Lit("Cannot read file: ") \o PathString(path))
    ELSE MakeSuccess(NoValue)

\* loadClips that takes the empty track id for "all tracks"
TrackIdEmpty_AllTracks(trackId) == FALSE

\* trackId.empty()
TrackIdEmpty(trackId) == IsEmpty(trackId)

\* the result of loadClips(path, trackId)
LoadClipsResult(f, path, trackId) ==
    IF PathEmpty(path) THEN MakeError(Lit("Path cannot be empty"))
    ELSE IF TrackIdEmpty(trackId) THEN MakeError(Lit("Track ID cannot be empty"))
    ELSE IF FileError(f, path) # <<>> THEN MakeError(FileError(f, path))
    ELSE IF Size(trackId) > MaxTrackIdLength
    THEN MakeError(Lit("Track ID too long: ") \o Lit(ToString(Size(trackId)))
                   \o Lit(" characters"))
    ELSE MakeSuccess(NoValue)

\* DataAccessEngineImpl::loadProjectInfo(path)
LoadProjectInfo(path) ==
    /\ UNCHANGED <<memory, cv, tasks>>
    /\ call' = [CallOp("loadProjectInfo") EXCEPT !.path = path]
    /\ res' = LoadProjectInfoResult(fs, path)
    /\ UNCHANGED <<fs, reader, writer, hist>>

\* DataAccessEngineImpl::loadTracks(path)
LoadTracks(path) ==
    /\ UNCHANGED <<memory, cv, tasks>>
    /\ call' = [CallOp("loadTracks") EXCEPT !.path = path]
    /\ res' = LoadTracksResult(fs, path)
    /\ UNCHANGED <<fs, reader, writer, hist>>

\* DataAccessEngineImpl::loadClips(path, trackId)
LoadClips(path, trackId) ==
    /\ UNCHANGED <<memory, cv, tasks>>
    /\ call' = [CallOp("loadClips") EXCEPT !.path = path, !.trackId = trackId]
    /\ res' = LoadClipsResult(fs, path, trackId)
    /\ UNCHANGED <<fs, reader, writer, hist>>

\* validateFile whose warnings count as failures
Warned_Invalidates(result, message) ==
    [result EXCEPT !.warnings = Append(@, message), !.isValid = FALSE]

\* result.warnings.push_back(message)
Warned(result, message) == [result EXCEPT !.warnings = Append(@, message)]

\* result.errors.push_back(message); result.isValid = false
Failed(result, message) ==
    [result EXCEPT !.errors = Append(@, message), !.isValid = FALSE]

\* extension != ".dawproject" && extension != ".xml" && extension != ".zip"
UnexpectedExtension(p) == BadExtension(p) /\ Extension(p) # <<Dot, "zip">>

\* DataAccessEngineImpl::validateFile(path): the ValidationResult it returns
ValidateFileResult(f, path) ==
    LET result == [NoValidation EXCEPT !.isValid = TRUE,
                                       !.context = PathString(path)]
        fileSize == FileSize(f, path)
        large == IF fileSize > MAX_VALIDATION_SIZE
                 THEN Warned(result, Lit("File is very large (")
                                     \o Lit(ToString(fileSize))
                                     \o Lit(" bytes), validation may be slow"))
                 ELSE result
        sized == IF fileSize = 0 THEN Warned(large, Lit("File is empty"))
                 ELSE large
    IN  IF PathEmpty(path) THEN Failed(result, Lit("Path cannot be empty"))
        ELSE IF FileError(f, path) # <<>> THEN Failed(result, FileError(f, path))
        ELSE IF ~OwnerRead(f, path) THEN Failed(sized, Lit("File is not readable"))
        ELSE IF UnexpectedExtension(path)
        THEN Warned(sized, Lit("Unexpected file extension: ")
                           \o PathString(RelPath(<<Extension(path)>>)))
        ELSE sized

\* isValidProjectFile without the size check
SizeAccepted_Any(fileSize) == TRUE

\* fileSize != 0 && fileSize <= MAX_PROJECT_FILE_SIZE
SizeAccepted(fileSize) == fileSize # 0 /\ fileSize <= MAX_PROJECT_FILE_SIZE

\* DataAccessEngineImpl::isValidProjectFile(path): the bool it returns
IsValidProjectFileResult(f, path) ==
    IF PathEmpty(path) THEN FALSE
    ELSE IF ~Exists(f, path) THEN FALSE
    ELSE IF ~IsRegularFile(f, path) THEN FALSE
    ELSE IF ~OwnerRead(f, path) THEN FALSE
    ELSE IF ~SizeAccepted(FileSize(f, path)) THEN FALSE
    ELSE ~BadExtension(path)

\* what a call returning a ValidationResult gives back
Validated(result) ==
    [Plain(result.isValid) EXCEPT !.value.validation = result]

\* DataAccessEngineImpl::validateFile(path)
ValidateFile(path) ==
    /\ UNCHANGED <<memory, cv, tasks>>
    /\ call' = [CallOp("validateFile") EXCEPT !.path = path]
    /\ res' = Validated(ValidateFileResult(fs, path))
    /\ UNCHANGED <<fs, reader, writer, hist>>

\* DataAccessEngineImpl::isValidProjectFile(path)
IsValidProjectFile(path) ==
    /\ UNCHANGED <<memory, cv, tasks>>
    /\ call' = [CallOp("isValidProjectFile") EXCEPT !.path = path]
    /\ res' = Plain(IsValidProjectFileResult(fs, path))
    /\ UNCHANGED <<fs, reader, writer, hist>>

\* the files other programs store: empty, small, unreadable, and of the
\* sizes at and just past the limits of validateFile and loadProjectInfo
StoredNodes ==
    { NoNode, DirNode,
      FileNode(TRUE, TRUE, <<>>),
      FileNode(TRUE, TRUE, Lit("<Project/>")),
      FileNode(FALSE, FALSE, Lit("<Project/>")),
      FileNode(FALSE, FALSE, <<>>),
      FileNode(TRUE, TRUE, Rep("x", MAX_VALIDATION_SIZE)),
      FileNode(TRUE, TRUE, Rep("x", MAX_VALIDATION_SIZE + 1)),
      FileNode(TRUE, TRUE, Rep("x", MAX_FILE_SIZE)),
      FileNode(TRUE, TRUE, Rep("x", MAX_FILE_SIZE + 1)),
      FileNode(FALSE, FALSE, Rep("x", MAX_FILE_SIZE + 1)) }

\* another program stores, replaces or removes a file or directory
ExternalStore(paths) ==
    /\ hist.external < MaxExternal
    /\ \E a \in paths, n \in StoredNodes :
          /\ fs[a] # n
          /\ fs[Front(a)].kind = "dir"
          /\ n.kind # "dir" => ~HasChild(fs, a)
          /\ fs' = [fs EXCEPT ![a] = n]
    /\ UNCHANGED <<memory, cv, tasks>>
    /\ call' = CallOp("external")
    /\ res' = Plain(TRUE)
    /\ hist' = [hist EXCEPT !.external = @ + 1]
    /\ UNCHANGED <<reader, writer>>

(***************************************************************************)
(* ValidationResult (data_access_engine_impl.cpp).  The object the caller  *)
(* works on is the one in res; the operand of merge is the one in call.    *)
(***************************************************************************)
\* errors.push_back(message); isValid = false
AddErrorResult(r, message) ==
    [r EXCEPT !.errors = Append(@, message), !.isValid = FALSE]

\* warnings.push_back(message)
AddWarningResult(r, message) == [r EXCEPT !.warnings = Append(@, message)]

\* a merge that takes over the validity of the other result
MergedValid_TakesOther(r, other) == other.isValid

\* if (!other.isValid) isValid = false
MergedValid(r, other) == IF ~other.isValid THEN FALSE ELSE r.isValid

\* merge(other): this and other afterwards; other is a const reference
MergeResult(r, other) ==
    [self |-> [r EXCEPT !.errors = @ \o other.errors,
                        !.warnings = @ \o other.warnings,
                        !.isValid = MergedValid(r, other)],
     other |-> other]

Messages(r) == Len(r.errors) + Len(r.warnings)

ErrorMessages == { Lit("Test error message"), Lit("Other error") }

WarningMessages == { Lit("Test warning message"), Lit("Other warning") }

\* the results a caller builds to merge them in; isValid is a public field
\* and is whatever the caller left there
OtherResults ==
    { [NoValidation EXCEPT !.isValid = b, !.errors = e, !.warnings = w] :
        b \in BOOLEAN,
        e \in { <<>>, <<Lit("Other error")>>,
                <<Lit("Other error"), Lit("Test error message")>> },
        w \in { <<>>, <<Lit("Other warning")>> } }

\* "ValidationResult result;" and, or not, "result.isValid = true;"
NewResult(valid) ==
    /\ UNCHANGED <<memory, cv, tasks>>
    /\ call' = [CallOp("newResult") EXCEPT !.other = call.other]
    /\ res' = Validated([NoValidation EXCEPT !.isValid = valid,
                                             !.context = Lit("Test Context")])
    /\ UNCHANGED <<fs, reader, writer, hist>>

\* the caller builds the other result
NewOther(other) ==
    /\ UNCHANGED <<memory, cv, tasks>>
    /\ call' = [CallOp("newOther") EXCEPT !.other = other]
    /\ UNCHANGED <<fs, reader, writer, res, hist>>

\* result.addError(message)
AddError(message) ==
    /\ Messages(res.value.validation) < MaxMessages
    /\ UNCHANGED <<memory, cv, tasks>>
    /\ call' = [CallOp("addError") EXCEPT !.message = message,
                                          !.other = call.other]
    /\ res' = Validated(AddErrorResult(res.value.validation, message))
    /\ UNCHANGED <<fs, reader, writer, hist>>

\* result.addWarning(message)
AddWarning(message) ==
    /\ Messages(res.value.validation) < MaxMessages
    /\ UNCHANGED <<memory, cv, tasks>>
    /\ call' = [CallOp("addWarning") EXCEPT !.message = message,
                                            !.other = call.other]
    /\ res' = Validated(AddWarningResult(res.value.validation, message))
    /\ UNCHANGED <<fs, reader, writer, hist>>

\* result.merge(other), other being another object
Merge ==
    LET merged == MergeResult(res.value.validation, call.other) IN
    /\ Messages(res.value.validation) + Messages(call.other) <= MaxMessages
    /\ UNCHANGED <<memory, cv, tasks>>
    /\ call' = [CallOp("merge") EXCEPT !.other = merged.other]
    /\ res' = Validated(merged.self)
    /\ UNCHANGED <<fs, reader, writer, hist>>

(***************************************************************************)
(* ProjectInfo (data_access_engine_impl.cpp)                               *)
(***************************************************************************)
\* ProjectInfo::isValid()
IsValidResult(p) == ~IsEmpty(p.title) /\ GtZero(p.tempo)

\* ProjectInfo::getValidationErrors()
GetValidationErrorsResult(p) ==
    (IF IsEmpty(p.title) THEN <<Lit("Project title cannot be empty")>> ELSE <<>>)
    \o (IF LeZero(p.tempo) THEN <<Lit("Project tempo must be greater than 0")>>
        ELSE <<>>)
    \o (IF IsEmpty(p.timeSignature) THEN <<Lit("Time signature cannot be empty")>>
        ELSE <<>>)

\* p.isValid()
IsValid(p) ==
    /\ UNCHANGED <<memory, cv, tasks>>
    /\ call' = [CallOp("isValid") EXCEPT !.info = p]
    /\ res' = Plain(IsValidResult(p))
    /\ UNCHANGED <<fs, reader, writer, hist>>

\* p.getValidationErrors()
GetValidationErrors(p) ==
    /\ UNCHANGED <<memory, cv, tasks>>
    /\ call' = [CallOp("getValidationErrors") EXCEPT !.info = p]
    /\ res' = [Plain(TRUE) EXCEPT !.value.list = GetValidationErrorsResult(p)]
    /\ UNCHANGED <<fs, reader, writer, hist>>

(***************************************************************************)
(* MemoryManagerImpl (memory_impl.h) over the C heap.  A pointer is an     *)
(* address of the heap or the null pointer; heap is the set of addresses   *)
(* of the blocks that are allocated and not yet freed.  The calls are made *)
(* one after the other, with pointers to blocks that are still allocated.  *)
(***************************************************************************)
NullPtr == 0

\* sizeof(void*)
PointerSize == 8

Addresses == 1..MaxBlocks

\* MemoryManagerImpl(): nothing tracked, both counters zero
NewMemoryManager ==
    [allocations_ |-> <<>>, alignedAllocations_ |-> <<>>,
     totalAllocated_ |-> 0, peakAllocated_ |-> 0, heap |-> {}]

\* map[ptr] = size
Put(map, ptr, size) ==
    [a \in DOMAIN map \cup {ptr} |-> IF a = ptr THEN size ELSE map[a]]

\* map.erase(map.find(ptr))
Erase(map, ptr) == [a \in DOMAIN map \ {ptr} |-> map[a]]

\* a manager whose peak follows the total
Peak_FollowsTotal(peak, total) == total

\* std::max(peakAllocated_, totalAllocated_)
Peak(peak, total) == IF peak < total THEN total ELSE peak

\* the addresses malloc / posix_memalign can return: a free one, or none
FreeOrNull(m) == (Addresses \ m.heap) \cup {NullPtr}

\* allocate(size, alignment) when the heap returns ptr
AllocateAt(m, ptr, size, alignment) ==
    IF ptr = NullPtr THEN m
    ELSE LET tracked ==
                 IF alignment <= PointerSize
                 THEN [m EXCEPT !.allocations_ = Put(@, ptr, size)]
                 ELSE [m EXCEPT !.alignedAllocations_ = Put(@, ptr, size)]
             total == m.totalAllocated_ + size
         IN  [tracked EXCEPT !.totalAllocated_ = total,
                             !.peakAllocated_ = Peak(@, total),
                             !.heap = @ \cup {ptr}]

\* allocateAligned(size, alignment) when the heap returns ptr
AllocateAlignedAt(m, ptr, size) ==
    IF ptr = NullPtr THEN m
    ELSE LET total == m.totalAllocated_ + size IN
         [m EXCEPT !.alignedAllocations_ = Put(@, ptr, size),
                   !.totalAllocated_ = total,
                   !.peakAllocated_ = Peak(@, total),
                   !.heap = @ \cup {ptr}]

\* deallocate(ptr)
DeallocateIn(m, ptr) ==
    IF ptr = NullPtr THEN m
    ELSE IF ptr \in DOMAIN m.allocations_
    THEN [m EXCEPT !.totalAllocated_ = @ - m.allocations_[ptr],
                   !.allocations_ = Erase(@, ptr),
                   !.heap = @ \ {ptr}]
    ELSE IF ptr \in DOMAIN m.alignedAllocations_
    THEN [m EXCEPT !.totalAllocated_ = @ - m.alignedAllocations_[ptr],
                   !.alignedAllocations_ = Erase(@, ptr),
                   !.heap = @ \ {ptr}]
    ELSE m

\* deallocateAligned(ptr): the block is freed whether it is tracked or not
DeallocateAlignedIn(m, ptr) ==
    IF ptr = NullPtr THEN m
    ELSE IF ptr \in DOMAIN m.alignedAllocations_
    THEN [m EXCEPT !.totalAllocated_ = @ - m.alignedAllocations_[ptr],
                   !.alignedAllocations_ = Erase(@, ptr),
                   !.heap = @ \ {ptr}]
    ELSE [m EXCEPT !.heap = @ \ {ptr}]

\* the size reallocate finds for ptr, 0 when it is tracked nowhere
OldSize(m, ptr) ==
    IF ptr \in DOMAIN m.allocations_ THEN m.allocations_[ptr]
    ELSE IF ptr \in DOMAIN m.alignedAllocations_ THEN m.alignedAllocations_[ptr]
    ELSE 0

WasAligned(m, ptr) ==
    ptr \notin DOMAIN m.allocations_ /\ ptr \in DOMAIN m.alignedAllocations_

\* reallocate takes the std::realloc branch
InPlace(m, ptr, alignment) == alignment <= PointerSize /\ ~WasAligned(m, ptr)

\* the addresses reallocate can come back with: std::realloc may keep the
\* block where it is, the other branch allocates a second block
NewPtrs(m, ptr, newSize, alignment) ==
    IF ptr = NullPtr THEN FreeOrNull(m)
    ELSE IF newSize = 0 THEN {NullPtr}
    ELSE IF InPlace(m, ptr, alignment) THEN FreeOrNull(m) \cup {ptr}
    ELSE FreeOrNull(m)

\* reallocate(ptr, newSize, alignment) when it comes back with newPtr
ReallocateAt(m, ptr, newPtr, newSize, alignment) ==
    IF ptr = NullPtr THEN AllocateAt(m, newPtr, newSize, alignment)
    ELSE IF newSize = 0 THEN DeallocateIn(m, ptr)
    ELSE IF InPlace(m, ptr, alignment)
    THEN IF newPtr = NullPtr THEN m
         ELSE LET total == m.totalAllocated_ - OldSize(m, ptr) + newSize IN
              [m EXCEPT !.allocations_ = Put(Erase(@, ptr), newPtr, newSize),
                        !.totalAllocated_ = total,
                        !.peakAllocated_ = Peak(@, total),
                        !.heap = (@ \ {ptr}) \cup {newPtr}]
    ELSE LET second == AllocateAt(m, newPtr, newSize, alignment) IN
         IF newPtr # NullPtr /\ OldSize(m, ptr) > 0
         THEN IF WasAligned(m, ptr)
              THEN [second EXCEPT !.totalAllocated_ = @ - OldSize(m, ptr),
                                  !.alignedAllocations_ = Erase(@, ptr),
                                  !.heap = @ \ {ptr}]
              ELSE [second EXCEPT !.totalAllocated_ = @ - OldSize(m, ptr),
                                  !.allocations_ = Erase(@, ptr),
                                  !.heap = @ \ {ptr}]
         ELSE second

\* getTotalAllocated()
GetTotalAllocated(m) == m.totalAllocated_

\* getPeakAllocated()
GetPeakAllocated(m) == m.peakAllocated_

\* what a call returning a pointer gives back
Pointer(ptr) == [Plain(ptr # NullPtr) EXCEPT !.value.num = ptr]

\* allocate(size, alignment)
Allocate(size, alignment) ==
    \E ptr \in FreeOrNull(memory) :
        /\ memory' = AllocateAt(memory, ptr, size, alignment)
        /\ call' = [CallOp("allocate") EXCEPT !.size = size,
                                              !.alignment = alignment]
        /\ res' = Pointer(ptr)
        /\ UNCHANGED <<fs, reader, writer, hist, cv, tasks>>

\* allocateAligned(size, alignment)
AllocateAligned(size, alignment) ==
    \E ptr \in FreeOrNull(memory) :
        /\ memory' = AllocateAlignedAt(memory, ptr, size)
        /\ call' = [CallOp("allocateAligned") EXCEPT !.size = size,
                                                     !.alignment = alignment]
        /\ res' = Pointer(ptr)
        /\ UNCHANGED <<fs, reader, writer, hist, cv, tasks>>

\* deallocate(ptr)
Deallocate(ptr) ==
    /\ memory' = DeallocateIn(memory, ptr)
    /\ call' = [CallOp("deallocate") EXCEPT !.ptr = ptr]
    /\ res' = Plain(TRUE)
    /\ UNCHANGED <<fs, reader, writer, hist, cv, tasks>>

\* deallocateAligned(ptr)
DeallocateAligned(ptr) ==
    /\ memory' = DeallocateAlignedIn(memory, ptr)
    /\ call' = [CallOp("deallocateAligned") EXCEPT !.ptr = ptr]
    /\ res' = Plain(TRUE)
    /\ UNCHANGED <<fs, reader, writer, hist, cv, tasks>>

\* reallocate(ptr, newSize, alignment)
Reallocate(ptr, newSize, alignment) ==
    \E newPtr \in NewPtrs(memory, ptr, newSize, alignment) :
        /\ memory' = ReallocateAt(memory, ptr, newPtr, newSize, alignment)
        /\ call' = [CallOp("reallocate") EXCEPT !.ptr = ptr, !.size = newSize,
                                                !.alignment = alignment]
        /\ res' = Pointer(newPtr)
        /\ UNCHANGED <<fs, reader, writer, hist, cv, tasks>>

(***************************************************************************)
(* MemoryManagerImpl called by several threads.  Each thread calls with    *)
(* the blocks it holds itself, with sizes above zero, and is followed from *)
(* one use of mutex_ to the next.  tasks.thread[t].pc is the place the     *)
(* thread is at: the name of the method it waits to lock in, the same name *)
(* with ":locked" once it holds mutex_, and for reallocate the statements  *)
(* around its second branch, where it gives mutex_ up for the time of the  *)
(* allocate call.  A statement "totalAllocated_ += size" reads the counter *)
(* when the thread has the mutex and writes it back when the thread is     *)
(* done: reg is the value read.                                            *)
(***************************************************************************)
Threads == {"t1", "t2"}

NoThread == "none"

\* a thread outside of any call; seen keeps, for a reallocate on its second
\* branch, the total it found when it looked the block up
IdleThread ==
    [pc |-> "idle", ptr |-> NullPtr, size |-> 0, alignment |-> 0,
     oldSize |-> 0, wasAligned |-> FALSE, newPtr |-> NullPtr, reg |-> 0,
     seen |-> 0, owned |-> {}]

\* the threads before their first call; freedTwice tells whether a block
\* was freed, or erased from a map, that was not there, and crossed whether
\* a reallocate moved a block while another thread changed the total
\* between its unlock and its lock
NoTasks ==
    [mutex_ |-> NoThread, freedTwice |-> FALSE, crossed |-> FALSE,
     calls |-> 0, thread |-> [t \in Threads |-> IdleThread]]

\* a mutex that lets everybody in
MutexFree_Always(k) == TRUE

\* std::mutex: lock() goes through when no thread holds it
MutexFree(k) == k.mutex_ = NoThread

\* the heap has a block for each thread and one more: a thread that
\* reallocates holds two while another thread holds one
TaskAddresses == 1..(Cardinality(Threads) + 1)

TaskFreeOrNull(m) == (TaskAddresses \ m.heap) \cup {NullPtr}

\* the place a thread is at once it has the mutex
LockedPc(pc) ==
    CASE pc = "allocate" -> "allocate:locked"
      [] pc = "allocateAligned:track" -> "allocateAligned:locked"
      [] pc = "deallocate" -> "deallocate:locked"
      [] pc = "deallocateAligned" -> "deallocateAligned:locked"
      [] pc = "reallocate" -> "reallocate:locked"
      [] pc = "reallocate:allocate" -> "reallocate:allocating"
      [] pc = "reallocate:relock" -> "reallocate:cleanup"
      [] OTHER -> "idle"

\* the counter a critical section leaves behind: what the thread read when
\* it took the mutex, changed by what the section adds or takes away
Stored(m, changed, reg) ==
    [changed EXCEPT !.totalAllocated_ =
                        reg + changed.totalAllocated_ - m.totalAllocated_]

\* a thread comes back from its call with ptr: it holds the block from now
Returned(thr, ptr) ==
    [IdleThread EXCEPT !.owned = (thr.owned \cup {ptr}) \ {NullPtr}]

\* a thread calls allocate, allocateAligned, deallocate, deallocateAligned
\* or reallocate; the block it passes is no longer its own
CallManager(t, op, ptr, size, alignment) ==
    LET thr == tasks.thread[t] IN
    /\ thr.pc = "idle"
    /\ tasks.calls < MaxCalls
    /\ tasks' = [tasks EXCEPT !.calls = @ + 1,
                              !.thread[t] =
                     [thr EXCEPT !.pc = op, !.ptr = ptr, !.size = size,
                                 !.alignment = alignment,
                                 !.owned = @ \ {ptr}]]
    /\ UNCHANGED <<fs, reader, writer, call, res, hist, memory, cv>>

\* std::lock_guard<std::mutex> lock(mutex_) and mutex_.lock()
Lock(t) ==
    LET thr == tasks.thread[t] IN
    /\ LockedPc(thr.pc) # "idle"
    /\ MutexFree(tasks)
    /\ tasks' = [tasks EXCEPT !.mutex_ = t,
                              !.thread[t] =
                     [thr EXCEPT !.pc = LockedPc(thr.pc),
                                 !.reg = memory.totalAllocated_]]
    /\ UNCHANGED <<fs, reader, writer, call, res, hist, memory, cv>>

\* allocate(size, alignment) under the mutex, called by the thread or by
\* reallocate
AllocateLocked(t) ==
    LET thr == tasks.thread[t] IN
    /\ thr.pc \in {"allocate:locked", "reallocate:allocating"}
    /\ \E ptr \in TaskFreeOrNull(memory) :
          /\ memory' = Stored(memory,
                              AllocateAt(memory, ptr, thr.size, thr.alignment),
                              thr.reg)
          /\ tasks' = [tasks EXCEPT !.mutex_ = NoThread,
                                    !.thread[t] =
                           IF thr.pc = "allocate:locked"
                           THEN Returned(thr, ptr)
                           ELSE [thr EXCEPT !.pc = "reallocate:relock",
                                            !.newPtr = ptr]]
    /\ UNCHANGED <<fs, reader, writer, call, res, hist, cv>>

\* posix_memalign(&ptr, alignment, size) of allocateAligned, before the
\* mutex is taken
Memalign(t) ==
    LET thr == tasks.thread[t] IN
    /\ thr.pc = "allocateAligned"
    /\ \E ptr \in TaskFreeOrNull(memory) :
          /\ memory' = [memory EXCEPT !.heap = (@ \cup {ptr}) \ {NullPtr}]
          /\ tasks' = [tasks EXCEPT !.thread[t] =
                           IF ptr = NullPtr
                           THEN Returned(thr, NullPtr)
                           ELSE [thr EXCEPT !.pc = "allocateAligned:track",
                                            !.newPtr = ptr]]
    /\ UNCHANGED <<fs, reader, writer, call, res, hist, cv>>

\* allocateAligned under the mutex: the block is tracked
TrackAligned(t) ==
    LET thr == tasks.thread[t] IN
    /\ thr.pc = "allocateAligned:locked"
    /\ memory' = Stored(memory,
                        AllocateAlignedAt(memory, thr.newPtr, thr.size),
                        thr.reg)
    /\ tasks' = [tasks EXCEPT !.mutex_ = NoThread,
                              !.thread[t] = Returned(thr, thr.newPtr)]
    /\ UNCHANGED <<fs, reader, writer, call, res, hist, cv>>

\* deallocate(ptr) and deallocateAligned(ptr) under the mutex
DeallocateLocked(t) ==
    LET thr == tasks.thread[t] IN
    /\ thr.pc \in {"deallocate:locked", "deallocateAligned:locked"}
    /\ memory' = Stored(memory,
                        IF thr.pc = "deallocate:locked"
                        THEN DeallocateIn(memory, thr.ptr)
                        ELSE DeallocateAlignedIn(memory, thr.ptr),
                        thr.reg)
    /\ tasks' = [tasks EXCEPT !.mutex_ = NoThread,
                              !.freedTwice = @ \/ thr.ptr \notin memory.heap,
                              !.thread[t] = Returned(thr, NullPtr)]
    /\ UNCHANGED <<fs, reader, writer, call, res, hist, cv>>

\* reallocate under the mutex: the block is looked up; the std::realloc
\* branch does all its work here, the other branch unlocks the mutex for
\* the allocate call
ReallocateLocked(t) ==
    LET thr == tasks.thread[t] IN
    /\ thr.pc = "reallocate:locked"
    /\ IF InPlace(memory, thr.ptr, thr.alignment)
       THEN \E newPtr \in TaskFreeOrNull(memory) \cup {thr.ptr} :
              /\ memory' = Stored(memory,
                                  ReallocateAt(memory, thr.ptr, newPtr,
                                               thr.size, thr.alignment),
                                  thr.reg)
              /\ tasks' = [tasks EXCEPT
                     !.mutex_ = NoThread,
                     !.freedTwice = @ \/ thr.ptr \notin memory.heap
                                      \/ thr.ptr \notin DOMAIN memory.allocations_,
                     !.thread[t] =
                         Returned(thr, IF newPtr = NullPtr THEN thr.ptr
                                       ELSE newPtr)]
       ELSE /\ tasks' = [tasks EXCEPT
                     !.mutex_ = NoThread,
                     !.thread[t] =
                         [thr EXCEPT !.pc = "reallocate:allocate",
                                     !.oldSize = OldSize(memory, thr.ptr),
                                     !.wasAligned = WasAligned(memory, thr.ptr),
                                     !.seen = thr.reg]]
            /\ UNCHANGED memory
    /\ UNCHANGED <<fs, reader, writer, call, res, hist, cv>>

\* the clean-up of the old block in the second branch of reallocate
ReleaseOld(m, ptr, oldSize, wasAligned) ==
    IF wasAligned
    THEN [m EXCEPT !.totalAllocated_ = @ - oldSize,
                   !.alignedAllocations_ = Erase(@, ptr),
                   !.heap = @ \ {ptr}]
    ELSE [m EXCEPT !.totalAllocated_ = @ - oldSize,
                   !.allocations_ = Erase(@, ptr),
                   !.heap = @ \ {ptr}]

\* reallocate after mutex_.lock(): the old block goes when the new one is
\* there, and the thread comes back with the new pointer
ReallocateCleanup(t) ==
    LET thr == tasks.thread[t]
        release == thr.newPtr # NullPtr /\ thr.oldSize > 0
        map == IF thr.wasAligned THEN memory.alignedAllocations_
               ELSE memory.allocations_
        overlap == thr.reg # thr.seen + thr.size
    IN
    /\ thr.pc = "reallocate:cleanup"
    /\ memory' = IF release
                 THEN Stored(memory,
                             ReleaseOld(memory, thr.ptr, thr.oldSize,
                                        thr.wasAligned),
                             thr.reg)
                 ELSE memory
    /\ tasks' = [tasks EXCEPT
           !.mutex_ = NoThread,
           !.freedTwice = @ \/ (release /\ (thr.ptr \notin memory.heap
                                            \/ thr.ptr \notin DOMAIN map)),
           !.crossed = @ \/ (release /\ overlap),
           !.thread[t] =
               IF thr.newPtr = NullPtr
               THEN Returned(thr, thr.ptr)
               ELSE [Returned(thr, thr.newPtr) EXCEPT
                        !.owned = IF release THEN @ ELSE @ \cup {thr.ptr}]]
    /\ UNCHANGED <<fs, reader, writer, call, res, hist, cv>>

(***************************************************************************)
(* ConditionVariableImpl, used by two threads as in the unit test: the     *)
(* waiter thread calls wait() or waitFor(), the main thread calls          *)
(* notifyOne() or notifyAll().  A call of the waiter is followed           *)
(* statement by statement; cv.pc is the place the waiter is at:            *)
(*   "idle"      outside of any call                                       *)
(*   "called"    in wait()/waitFor(), before the unique_lock is built      *)
(*   "locked"    holds waitMutex_, before cv_.wait / cv_.wait_for          *)
(*   "blocked"   inside cv_.wait: waitMutex_ released, thread blocked      *)
(*   "woken"     unblocked, has to take waitMutex_ again                   *)
(*   "relocked"  cv_.wait returned, holds waitMutex_                       *)
(***************************************************************************)
\* ConditionVariableImpl(): nobody waits, the mutex is free.  notified
\* tells whether notifyOne() was called since the waiter's call began, wake
\* what unblocked the waiter, result what its last call returned.
NewConditionVariable ==
    [pc |-> "idle", op |-> "none", waitMutex_ |-> FALSE, wake |-> "none",
     notified |-> FALSE, result |-> "none", waits |-> 0, notifies |-> 0]

\* the waiter thread calls wait() or waitFor(timeout)
CallWait(op) ==
    /\ cv.pc = "idle"
    /\ cv.waits < MaxWaits
    /\ cv' = [cv EXCEPT !.pc = "called", !.op = op, !.wake = "none",
                        !.notified = FALSE, !.result = "none",
                        !.waits = @ + 1]
    /\ UNCHANGED <<fs, reader, writer, call, res, hist, memory, tasks>>

\* std::unique_lock<std::mutex> lock(waitMutex_)
LockWaitMutex ==
    /\ cv.pc = "called"
    /\ ~cv.waitMutex_
    /\ cv' = [cv EXCEPT !.pc = "locked", !.waitMutex_ = TRUE]
    /\ UNCHANGED <<fs, reader, writer, call, res, hist, memory, tasks>>

\* cv_.wait(lock) / cv_.wait_for(lock, timeout) begins: the mutex is
\* released and the thread blocks, in one step
BlockOnCv ==
    /\ cv.pc = "locked"
    /\ cv' = [cv EXCEPT !.pc = "blocked", !.waitMutex_ = FALSE]
    /\ UNCHANGED <<fs, reader, writer, call, res, hist, memory, tasks>>

\* what cv_.notify_one() and cv_.notify_all() do to the waiter: a blocked
\* thread is unblocked, any other is left where it is
Unblocked(c) ==
    IF c.pc = "blocked"
    THEN [c EXCEPT !.pc = "woken", !.wake = "notify"]
    ELSE c

\* notifyOne(), called by the main thread
NotifyOne ==
    /\ cv.notifies < MaxNotifies
    /\ cv' = [Unblocked(cv) EXCEPT !.notifies = @ + 1,
                                   !.notified = (cv.pc # "idle")]
    /\ UNCHANGED <<fs, reader, writer, call, res, hist, memory, tasks>>

\* notifyAll(), called by the main thread
NotifyAll ==
    /\ cv.notifies < MaxNotifies
    /\ cv' = [Unblocked(cv) EXCEPT !.notifies = @ + 1]
    /\ UNCHANGED <<fs, reader, writer, call, res, hist, memory, tasks>>

\* std::condition_variable may unblock the thread with no notification
SpuriousWakeup ==
    /\ cv.pc = "blocked"
    /\ cv' = [cv EXCEPT !.pc = "woken", !.wake = "spurious"]
    /\ UNCHANGED <<fs, reader, writer, call, res, hist, memory, tasks>>

\* the timeout of cv_.wait_for passes
Timeout ==
    /\ cv.pc = "blocked"
    /\ cv.op = "waitFor"
    /\ cv' = [cv EXCEPT !.pc = "woken", !.wake = "timeout"]
    /\ UNCHANGED <<fs, reader, writer, call, res, hist, memory, tasks>>

\* cv_.wait / cv_.wait_for takes the mutex again before it returns
Reacquire ==
    /\ cv.pc = "woken"
    /\ ~cv.waitMutex_
    /\ cv' = [cv EXCEPT !.pc = "relocked", !.waitMutex_ = TRUE]
    /\ UNCHANGED <<fs, reader, writer, call, res, hist, memory, tasks>>

\* wait() and waitFor() return: the unique_lock releases the mutex;
\* waitFor gives cv_.wait_for(...) == std::cv_status::no_timeout
ReturnFromWait ==
    /\ cv.pc = "relocked"
    /\ cv' = [cv EXCEPT !.pc = "idle", !.waitMutex_ = FALSE,
                        !.result = IF cv.op = "wait" THEN "returned"
                                   ELSE IF cv.wake = "timeout" THEN "false"
                                   ELSE "true"]
    /\ UNCHANGED <<fs, reader, writer, call, res, hist, memory, tasks>>

(***************************************************************************)
(* The records the callers pass in.                                        *)
(***************************************************************************)
\* a name long enough that two tracks carrying it pass the buffer limit
BigLen == 6 * 1024 * 1024

Project(title, tempo, artist) ==
    [DefaultProjectInfo EXCEPT !.title = title, !.tempo = tempo,
                               !.artist = artist, !.timeSignature = Lit("4/4")]

Track(id, name) ==
    [DefaultTrackInfo EXCEPT !.id = id, !.name = name, !.volume = Num(10)]

Clip(id, startTime) ==
    [DefaultClipInfo EXCEPT !.id = id, !.name = Lit("Clip"),
                            !.trackId = Lit("t1"), !.startTime = startTime,
                            !.duration = Num(10)]

\* "R&B": free text holding a character XML gives a meaning to.  Text that
\* comes from a caller keeps each '"', '<', '>' and '&' in a chunk of its own.
MarkupText == Lit("R") \o Lit("&") \o Lit("B")

\* the name with which a third track fills the buffer to the last byte, after
\* the header and one track with a name of BigLen
FillLen ==
    BufferLimit - Size(XmlHeader)
    - Size(TrackXml(Track(Lit("t1"), Rep("n", BigLen))))
    - Size(TrackXml(Track(Lit("t1"), <<>>)))

ProjectInputs ==
    { Project(Lit("T"), Num(1200), Lit("A")),
      [Project(Lit("T"), Num(1200), Lit("A")) EXCEPT !.timeSignature = <<>>],
      Project(<<>>, Num(1200), Lit("A")),
      Project(Lit("T"), Num(0), Lit("A")),
      Project(Lit("T"), Num(9990), Rep("a", MaxArtistLength)),
      Project(Lit("T"), Num(9991), Lit("A")),
      Project(Lit("T"), NaN, Lit("A")),
      Project(Lit("T"), Num(1200), Rep("a", MaxArtistLength + 1)),
      Project(Rep("t", BigLen), Num(1200), Lit("A")) }

TrackInputs ==
    { Track(Lit("t1"), Lit("N")),
      [Track(Lit("t1"), Lit("N")) EXCEPT !.volume = Num(20)],
      Track(<<>>, Lit("N")),
      Track(Lit("t1"), <<>>),
      Track(Lit("t1"), MarkupText),
      Track(Lit("t1"), Rep("n", BigLen)),
      Track(Lit("t1"), Rep("n", FillLen)),
      Track(Lit("t1"), Rep("n", FillLen + 1)) }

ClipInputs ==
    { Clip(Lit("c1"), Num(0)),
      [Clip(Lit("c1"), Num(0)) EXCEPT !.name = <<>>, !.trackId = <<>>,
                                      !.duration = Num(0)],
      Clip(<<>>, Num(0)),
      Clip(Lit("c1"), Num(0 - 1)),
      Clip(Lit("c1"), NaN),
      Clip(Rep("c", BigLen), Num(0)) }

\* a few records for the behaviours that go through whole writer sessions
SmallProjects ==
    { Project(Lit("T"), Num(1200), Lit("A")), Project(<<>>, Num(1200), Lit("A")) }

SmallTracks == { Track(Lit("t1"), Lit("N")), Track(<<>>, Lit("N")) }

SmallClips == { Clip(Lit("c1"), Num(0)), Clip(Lit("c1"), Num(0 - 1)) }

\* the projects isValid() and getValidationErrors() are asked about
InfoInputs ==
    { [DefaultProjectInfo EXCEPT !.title = title, !.artist = artist,
                                 !.tempo = tempo, !.timeSignature = signature] :
        title \in { <<>>, Lit("Test Project"), MarkupText },
        artist \in { <<>>, Lit("Test Artist") },
        tempo \in { Num(0 - 1), Num(0), Num(1), Num(1200), Num(9991), NaN },
        signature \in { <<>>, Lit("4/4") } }

\* the track ids loadClips is called with
TrackIds ==
    { <<>>, Lit("track_1"), Rep("t", MaxTrackIdLength),
      Rep("t", MaxTrackIdLength + 1) }

\* the projects saveProject is called with
SaveInputs ==
    { Project(Lit("T"), Num(1200), Lit("A")),
      Project(<<>>, Num(1200), Lit("A")),
      Project(Lit("T"), Num(9991), Lit("A")),
      Project(MarkupText, Num(1200), Lit("A")) }

(***************************************************************************)
(* The state after construction: the working directory exists and is       *)
(* empty, there is no reader and no writer.                                *)
(***************************************************************************)
Init ==
    /\ fs = [a \in Universe |->
                IF \E n \in 0..Len(Cwd) : a = SubSeq(Cwd, 1, n)
                THEN DirNode ELSE NoNode]
    /\ reader = NoReader
    /\ writer = NoWriter
    /\ memory = NewMemoryManager
    /\ cv = NewConditionVariable
    /\ tasks = NoTasks
    /\ call = CallOp("init")
    /\ res = Plain(TRUE)
    /\ hist = [external |-> 0,    \* changes made from outside so far
               sessions |-> 0,    \* successful open() calls of this reader
               readLog |-> <<>>,  \* tracks readNextTrack returned this session
               readBefore |-> 0,  \* their number in the session before
               writeLog |-> <<>>, \* byte counts the write calls returned this session
               finalizes |-> 0,   \* finalize() calls that went past the open check
               finalized |-> 0]   \* those of this session

ReaderNext ==
    \/ \E path \in ReaderPaths : CreateReader(path)
    \/ DestroyReader
    \/ ReaderOpen
    \/ ReaderClose
    \/ ReadProjectInfo
    \/ ReadNextTrack
    \/ ReadNextClip
    \/ ExternalChange(TargetAndSub)

WriterNext ==
    \/ \E path \in WriterPaths : CreateWriter(path)
    \/ DestroyWriter
    \/ WriterOpen
    \/ WriterClose
    \/ \E project \in SmallProjects : WriteProjectInfo(project)
    \/ \E track \in SmallTracks : WriteTrack(track)
    \/ \E clip \in SmallClips : WriteClip(clip)
    \/ hist.finalizes = 0 /\ Finalize
    \/ ExternalChange(TargetFile)

WriteNext ==
    \/ CreateWriter(PathOut)
    \/ WriterOpen
    \/ WriterClose
    \/ \E project \in ProjectInputs : WriteProjectInfo(project)
    \/ \E track \in TrackInputs : WriteTrack(track)
    \/ \E clip \in ClipInputs : WriteClip(clip)

SaveNext ==
    \/ \E project \in SaveInputs, path \in SavePaths : SaveProject(project, path)
    \/ ExternalChange(TargetAndSub)

\* the write calls with records of every size, and one finalize() that gets
\* past the open check
BufferNext ==
    \/ CreateWriter(PathOut)
    \/ WriterOpen
    \/ WriterClose
    \/ \E project \in SmallProjects : WriteProjectInfo(project)
    \/ \E track \in TrackInputs : WriteTrack(track)
    \/ \E clip \in SmallClips : WriteClip(clip)
    \/ hist.finalizes = 0 /\ Finalize

\* the record each of the calls below is made with where one record is enough
OneProject == Project(Lit("T"), Num(1200), Lit("A"))

OneTrack == Track(Lit("t1"), Lit("N"))

\* the paths other programs change where both entry points write
TargetAndTxt == { Resolve(PathOut), Resolve(PathTxt) }

\* the two entry points that write files: saveProject and the writers
TargetNext ==
    \/ \E path \in TargetPaths : CreateWriter(path)
    \/ DestroyWriter
    \/ WriterOpen
    \/ WriteTrack(OneTrack)
    \/ Finalize
    \/ \E path \in TargetPaths : SaveProject(OneProject, path)
    \/ ExternalChange(TargetAndTxt)

\* the waiter thread and the main thread around one condition variable
ConditionNext ==
    \/ \E op \in {"wait", "waitFor"} : CallWait(op)
    \/ LockWaitMutex
    \/ BlockOnCv
    \/ NotifyOne
    \/ NotifyAll
    \/ SpuriousWakeup
    \/ Timeout
    \/ Reacquire
    \/ ReturnFromWait

\* the files at the paths the loading calls are given
LoadedFiles == { Resolve(p) : p \in LoadPaths \ {EmptyPath} }

\* loading and validating
LoadNext ==
    \/ \E path \in LoadPaths : LoadProjectInfo(path)
    \/ \E path \in LoadPaths : LoadTracks(path)
    \/ \E path \in LoadPaths, trackId \in TrackIds : LoadClips(path, trackId)
    \/ \E path \in LoadPaths : ValidateFile(path)
    \/ \E path \in LoadPaths : IsValidProjectFile(path)
    \/ ExternalStore(LoadedFiles)

\* the operations of ValidationResult
ValidationNext ==
    \/ \E valid \in BOOLEAN : NewResult(valid)
    \/ \E other \in OtherResults : NewOther(other)
    \/ \E message \in ErrorMessages : AddError(message)
    \/ \E message \in WarningMessages : AddWarning(message)
    \/ Merge

\* the two validation methods of ProjectInfo
InfoNext ==
    \/ \E p \in InfoInputs : IsValid(p)
    \/ \E p \in InfoInputs : GetValidationErrors(p)

\* the sizes and alignments blocks are asked for
SizeInputs == {0, 16, 1024}

AlignmentInputs == {PointerSize, 64}

\* the blocks a caller has: those allocated and not freed, and no block
Held == memory.heap \cup {NullPtr}

\* the blocks that came from an aligned allocation
HeldAligned ==
    (memory.heap \cap DOMAIN memory.alignedAllocations_) \cup {NullPtr}

\* the memory manager
MemoryNext ==
    \/ \E size \in SizeInputs, alignment \in AlignmentInputs :
          Allocate(size, alignment)
    \/ \E size \in SizeInputs : AllocateAligned(size, 64)
    \/ \E ptr \in Held : Deallocate(ptr)
    \/ \E ptr \in HeldAligned : DeallocateAligned(ptr)
    \/ \E ptr \in Held, newSize \in SizeInputs, alignment \in AlignmentInputs :
          Reallocate(ptr, newSize, alignment)

\* the blocks the threads call the memory manager with; a block is
\* allocated with 16 bytes and reallocated to 1024

OwnedBy(t) == tasks.thread[t].owned

OwnedAligned(t) == OwnedBy(t) \cap DOMAIN memory.alignedAllocations_

\* the memory manager called by two threads
TasksNext ==
    \E t \in Threads :
        \/ CallManager(t, "allocate", NullPtr, 16, PointerSize)
        \/ CallManager(t, "allocateAligned", NullPtr, 16, 64)
        \/ \E ptr \in OwnedBy(t) :
              CallManager(t, "deallocate", ptr, 0, 0)
        \/ \E ptr \in OwnedAligned(t) :
              CallManager(t, "deallocateAligned", ptr, 0, 0)
        \/ \E ptr \in OwnedBy(t), alignment \in AlignmentInputs :
              CallManager(t, "reallocate", ptr, 1024, alignment)
        \/ Lock(t)
        \/ AllocateLocked(t)
        \/ Memalign(t)
        \/ TrackAligned(t)
        \/ DeallocateLocked(t)
        \/ ReallocateLocked(t)
        \/ ReallocateCleanup(t)

\* the paths the calls of the whole engine are made with
EnginePaths == {EmptyPath, PathOut}

\* every operation that returns a Result, on one target file; the engine
\* hands out one stream object, a reader or a writer, which is kept and
\* never closed; one finalize() gets past the open check
EngineNext ==
    \/ \E path \in EnginePaths : LoadProjectInfo(path)
    \/ \E path \in EnginePaths : LoadTracks(path)
    \/ \E path \in EnginePaths : LoadClips(path, Lit("track_1"))
    \/ \E project \in SmallProjects, path \in EnginePaths :
          SaveProject(project, path)
    \/ ~writer.alive /\ CreateReader(PathOut)
    \/ ReaderOpen
    \/ ReadProjectInfo
    \/ ReadNextTrack
    \/ ReadNextClip
    \/ ~reader.alive /\ CreateWriter(PathOut)
    \/ WriterOpen
    \/ \E project \in SmallProjects : WriteProjectInfo(project)
    \/ \E track \in SmallTracks : WriteTrack(track)
    \/ \E clip \in SmallClips : WriteClip(clip)
    \/ hist.finalizes = 0 /\ Finalize
    \/ ExternalChange(TargetFile)

Next ==
    \/ ReaderNext \/ WriterNext \/ WriteNext \/ SaveNext \/ TargetNext
    \/ LoadNext \/ EngineNext \/ ValidationNext \/ InfoNext \/ MemoryNext
    \/ BufferNext \/ ConditionNext \/ TasksNext

\* everything together
Spec == Init /\ [][Next]_vars

\* one reader and the file system
ReaderSpec == Init /\ [][ReaderNext]_vars

\* the life of writers over one target file, with a few records and one
\* finalize() that gets past the open check
WriterSpec == Init /\ [][WriterNext]_vars

\* the write calls of one writer, with every kind of record
WriteSpec == Init /\ [][WriteNext]_vars

\* saveProject and the file system
SaveSpec == Init /\ [][SaveNext]_vars

\* the loading and validating calls over stored files
LoadSpec == Init /\ [][LoadNext]_vars

\* every operation that returns a Result
EngineSpec == Init /\ [][EngineNext]_vars

\* ValidationResult objects and their operations
ValidationSpec == Init /\ [][ValidationNext]_vars

\* ProjectInfo and its validation methods
InfoSpec == Init /\ [][InfoNext]_vars

\* the memory manager and the heap
MemorySpec == Init /\ [][MemoryNext]_vars

\* saveProject and writers side by side
TargetSpec == Init /\ [][TargetNext]_vars

\* the condition variable, with any scheduling of the two threads
ConditionSpec == Init /\ [][ConditionNext]_vars

\* the condition variable under a fair scheduler: a thread that can take
\* its next statement takes it in the end, and the timeout of waitFor
\* passes; nothing makes the threads call, and nothing makes a spurious
\* wakeup happen
FairConditionSpec ==
    /\ ConditionSpec
    /\ WF_vars(LockWaitMutex)
    /\ WF_vars(BlockOnCv)
    /\ WF_vars(Timeout)
    /\ WF_vars(Reacquire)
    /\ WF_vars(ReturnFromWait)

\* the memory manager under any interleaving of its threads
TasksSpec == Init /\ [][TasksNext]_vars

\* one writer that fills its buffer and finalizes
BufferSpec == Init /\ [][BufferNext]_vars

(***************************************************************************)
(* Notions the properties below are stated with.                           *)
(***************************************************************************)
ReadOps == {"readProjectInfo", "readNextTrack", "readNextClip"}

WriteOps == {"writeProjectInfo", "writeTrack", "writeClip"}

\* the fragment a write call serialises its record to
FragmentOf(c) ==
    IF c.op = "writeProjectInfo" THEN ProjectXml(c.info)
    ELSE IF c.op = "writeTrack" THEN TrackXml(c.track)
    ELSE ClipXml(c.clip)

\* the record of a write call passes the validation of its method
RecordAccepted(c) ==
    IF c.op = "writeProjectInfo" THEN ProjectInfoError(c.info) = <<>>
    ELSE IF c.op = "writeTrack" THEN TrackError(c.track) = <<>>
    ELSE ClipError(c.clip) = <<>>

RECURSIVE SumSeq(_)
SumSeq(q) == IF q = <<>> THEN 0 ELSE Head(q) + SumSeq(Tail(q))

\* the path has a ".." segment
HasParentSegment(p) == \E k \in 1..Len(p.segs) : p.segs[k] = DotDot

\* a step of a reader (writer) that stays the same object
ReaderStep == reader.alive /\ reader'.alive

WriterStep == writer.alive /\ writer'.alive

(***************************************************************************)
(* C1: Reader ordering.  In an open reader holding N tracks, a             *)
(* readNextTrack() call made after fewer than N successful ones in this    *)
(* session finds hasMoreTracks() true, succeeds and returns the next track *)
(* of the list, and hasMoreTracks() is then true exactly when fewer than N *)
(* tracks have been returned; a call made after N successful ones finds    *)
(* hasMoreTracks() false and fails with "No more tracks available".        *)
(***************************************************************************)
C1_ReaderOrdering ==
    [][ (call'.op = "readNextTrack" /\ ReaderStep /\ reader.isOpen_) =>
            LET n == Len(reader.tracks_)
                k == Len(hist.readLog)
            IN  IF k < n
                THEN /\ HasMoreTracks
                     /\ res'.success
                     /\ res'.value.track = reader.tracks_[k + 1]
                     /\ Len(hist'.readLog) = k + 1
                     /\ HasMoreTracks' <=> (k + 1 < n)
                ELSE /\ ~HasMoreTracks
                     /\ ~res'.success
                     /\ res'.errorMessage = Lit("No more tracks available")
                     /\ hist'.readLog = hist.readLog ]_vars

\* the (N+1)-th call has failed after N successful ones
C1_Witness ==
    /\ reader.alive /\ reader.isOpen_
    /\ call.op = "readNextTrack" /\ ~res.success
    /\ Len(reader.tracks_) >= 1
    /\ Len(hist.readLog) = Len(reader.tracks_)
    /\ hist.readLog = reader.tracks_

(***************************************************************************)
(* C2: Writer buffer ceiling.  On an open writer, a write call whose       *)
(* fragment would take the buffer past 10 MiB returns an error and leaves  *)
(* the buffer as it was; a call with an accepted record whose fragment     *)
(* stays within 10 MiB succeeds.                                           *)
(***************************************************************************)
C2_BufferCeiling ==
    [][ (call'.op \in WriteOps /\ WriterStep /\ writer.isOpen_) =>
            LET total == Size(writer.xmlBuffer_) + Size(FragmentOf(call')) IN
            /\ total > 10 * 1024 * 1024 =>
                  /\ ~res'.success
                  /\ writer'.xmlBuffer_ = writer.xmlBuffer_
            /\ (total <= 10 * 1024 * 1024 /\ RecordAccepted(call')) =>
                  res'.success ]_vars

\* a track was refused for one byte too many, after calls that succeeded
C2_Witness ==
    /\ writer.alive /\ writer.isOpen_
    /\ call.op = "writeTrack" /\ ~res.success
    /\ res.errorMessage = Lit("XML buffer size limit exceeded")
    /\ Len(hist.writeLog) >= 1
    /\ Size(writer.xmlBuffer_) + Size(TrackXml(call.track)) = 10 * 1024 * 1024 + 1

(***************************************************************************)
(* C3: A read operation on a closed reader returns an error and changes    *)
(* nothing of the reader: not the cursors, not the loaded data.            *)
(***************************************************************************)
C3_ClosedReaderReads ==
    [][ (call'.op \in ReadOps /\ ReaderStep /\ ~reader.isOpen_) =>
            /\ ~res'.success
            /\ reader' = reader ]_vars

\* readNextTrack() was refused on a reader closed after a session: the
\* track it loaded is still there and the cursor is before it
C3_Witness ==
    /\ reader.alive /\ ~reader.isOpen_
    /\ call.op = "readNextTrack" /\ ~res.success
    /\ hist.sessions >= 1
    /\ reader.currentTrackIndex_ < Len(reader.tracks_)

(***************************************************************************)
(* C4: A write call or finalize() on a closed writer returns an error,     *)
(* appends nothing to the buffer and leaves the file system as it was.     *)
(***************************************************************************)
C4_ClosedWriterWrites ==
    [][ (call'.op \in WriteOps \cup {"finalize"} /\ WriterStep /\ ~writer.isOpen_) =>
            /\ ~res'.success
            /\ writer'.xmlBuffer_ = writer.xmlBuffer_
            /\ fs' = fs ]_vars

\* finalize() was refused on a writer closed after a session with writes
C4_Witness ==
    /\ writer.alive /\ ~writer.isOpen_
    /\ call.op = "finalize" /\ ~res.success
    /\ res.errorMessage = Lit("Writer not open")
    /\ Len(hist.writeLog) >= 1

C6_CloseAndReopen ==
    [][ /\ (call'.op = "reader.close" /\ ReaderStep) =>
              /\ ~reader'.isOpen_
              /\ reader'.currentTrackIndex_ = 0
              /\ reader'.currentClipIndex_ = 0
              /\ reader'.tracks_ = reader.tracks_
              /\ reader'.clips_ = reader.clips_
              /\ GetTrackCount' = GetTrackCount
        /\ (reader'.alive /\ reader'.isOpen_) =>
              /\ reader'.currentTrackIndex_ <= Len(reader'.tracks_)
              /\ hist'.readLog =
                    SubSeq(reader'.tracks_, 1, reader'.currentTrackIndex_) ]_vars

\* a second session has returned the whole list again, after a first one
\* that had read a track
C6_Witness ==
    /\ reader.alive /\ reader.isOpen_
    /\ hist.sessions >= 2 /\ hist.readBefore >= 1
    /\ ~HasMoreTracks
    /\ Len(reader.tracks_) >= 1
    /\ hist.readLog = reader.tracks_

(***************************************************************************)
(* C7: A successful write call returns the length of the fragment it       *)
(* appended, not the length of the buffer, and the buffer afterwards is    *)
(* the buffer before followed by that fragment, so its length grew by the  *)
(* returned count.                                                         *)
(***************************************************************************)
C7_BytesWrittenIsIncrement ==
    [][ (call'.op \in WriteOps /\ WriterStep /\ res'.success) =>
            /\ writer'.xmlBuffer_ = writer.xmlBuffer_ \o FragmentOf(call')
            /\ res'.value.num = Size(FragmentOf(call'))
            /\ Size(writer'.xmlBuffer_) =
                  Size(writer.xmlBuffer_) + res'.value.num ]_vars

\* a second write has succeeded: the running total and the increment differ
C7_Witness ==
    /\ writer.alive /\ writer.isOpen_
    /\ call.op \in WriteOps /\ res.success
    /\ Len(hist.writeLog) >= 2
    /\ res.value.num < Size(writer.xmlBuffer_) - Size(XmlHeader)

(***************************************************************************)
(* C8: In a session open() -> k successful writes -> finalize(), a         *)
(* successful finalize() (the first finalize() call of the session)        *)
(* returns header length + the k returned byte counts + closing fragment   *)
(* length, and afterwards the target is a regular file whose content is    *)
(* the whole buffer, whatever the file held before.                        *)
(***************************************************************************)
C8_FinalizeTotal ==
    [][ (call'.op = "finalize" /\ WriterStep /\ res'.success
         /\ hist.finalized = 0) =>
            LET target == Resolve(writer.filePath_) IN
            /\ res'.value.num =
                  Size(XmlHeader) + SumSeq(hist.writeLog) + Size(XmlFooter)
            /\ fs'[target].kind = "file"
            /\ fs'[target].data = writer'.xmlBuffer_
            /\ Size(fs'[target].data) = res'.value.num ]_vars

\* finalize() has succeeded after two successful writes
C8_Witness ==
    /\ writer.alive /\ writer.isOpen_
    /\ call.op = "finalize" /\ res.success
    /\ hist.finalized = 1
    /\ Len(hist.writeLog) >= 2
    /\ fs[Resolve(writer.filePath_)].data = writer.xmlBuffer_

(***************************************************************************)
(* C9: Acceptance of records by an open writer below the buffer ceiling.   *)
(* As claimed: writeProjectInfo succeeds iff title is non-empty and        *)
(* 0 < tempo <= 999, writeTrack iff id and name are non-empty, writeClip   *)
(* iff id is non-empty and startTime >= 0; nothing else counts.            *)
(***************************************************************************)
ClaimedAcceptance(c) ==
    IF c.op = "writeProjectInfo"
    THEN /\ ~IsEmpty(c.info.title)
         /\ c.info.tempo.k = "num"
         /\ 0 < c.info.tempo.v /\ c.info.tempo.v <= 999 * 10
    ELSE IF c.op = "writeTrack"
    THEN ~IsEmpty(c.track.id) /\ ~IsEmpty(c.track.name)
    ELSE /\ ~IsEmpty(c.clip.id)
         /\ c.clip.startTime.k = "num" /\ c.clip.startTime.v >= 0

C9_AcceptanceAsClaimed ==
    [][ (call'.op \in WriteOps /\ WriterStep /\ writer.isOpen_
         /\ Size(writer.xmlBuffer_) + Size(FragmentOf(call')) <= 10 * 1024 * 1024) =>
            (res'.success <=> ClaimedAcceptance(call')) ]_vars

(***************************************************************************)
(* C9, amended: writeProjectInfo succeeds iff title is non-empty, tempo is *)
(* neither <= 0 nor > 999 (so 0 < tempo <= 999, or not a number) and       *)
(* artist has at most 256 characters; writeTrack iff id and name are       *)
(* non-empty; writeClip iff id is non-empty and startTime is not < 0 (so   *)
(* startTime >= 0, or not a number).  No other field counts.               *)
(***************************************************************************)
AmendedAcceptance(c) ==
    IF c.op = "writeProjectInfo"
    THEN /\ ~IsEmpty(c.info.title)
         /\ ~(c.info.tempo.k = "num" /\ c.info.tempo.v <= 0)
         /\ ~(c.info.tempo.k = "num" /\ c.info.tempo.v > 999 * 10)
         /\ Size(c.info.artist) <= 256
    ELSE IF c.op = "writeTrack"
    THEN ~IsEmpty(c.track.id) /\ ~IsEmpty(c.track.name)
    ELSE /\ ~IsEmpty(c.clip.id)
         /\ ~(c.clip.startTime.k = "num" /\ c.clip.startTime.v < 0)

C9_AcceptanceAmended ==
    [][ (call'.op \in WriteOps /\ WriterStep /\ writer.isOpen_
         /\ Size(writer.xmlBuffer_) + Size(FragmentOf(call')) <= 10 * 1024 * 1024) =>
            (res'.success <=> AmendedAcceptance(call')) ]_vars

\* a project with a good title and tempo was refused for its artist name
C9_Witness ==
    /\ writer.alive /\ writer.isOpen_
    /\ call.op = "writeProjectInfo" /\ ~res.success
    /\ ~IsEmpty(call.info.title)
    /\ call.info.tempo = Num(1200)
    /\ Size(call.info.artist) = 257

(***************************************************************************)
(* C10: saveProject with a path that has a ".." segment is rejected and    *)
(* changes nothing in the file system, whatever the title, the tempo and   *)
(* the extension.                                                          *)
(***************************************************************************)
C10_TraversalRejected ==
    [][ (call'.op = "saveProject" /\ HasParentSegment(call'.path)) =>
            /\ ~res'.success
            /\ fs' = fs ]_vars

(***************************************************************************)
(* C11: Free text is escaped.  The file a successful saveProject wrote and *)
(* the buffer after a successful writeProjectInfo / writeTrack / writeClip *)
(* hold no raw '"', '<', '>' or '&' that came in with the caller's text.   *)
(***************************************************************************)
MarkupChars == {"\"", "<", ">", "&"}

\* the text holds a markup character of its own (the literals of the
\* serialiser are longer chunks)
HasRawMarkup(str) == \E i \in 1..Len(str) : str[i].s \in MarkupChars

C11_FreeTextEscaped ==
    /\ (call.op = "saveProject" /\ res.success)
          => ~HasRawMarkup(fs[Resolve(call.path)].data)
    /\ (call.op \in WriteOps /\ res.success)
          => ~HasRawMarkup(writer.xmlBuffer_)

(***************************************************************************)
(* C12: Extension allow-list.  Every file a call of the program creates or *)
(* changes (saveProject, a writer's open() or finalize()) has the          *)
(* extension ".dawproject" or ".xml"; saveProject and createWriter called  *)
(* with a path of any other extension fail and leave the file system as it *)
(* was.                                                                    *)
(***************************************************************************)
AllowedExtension(p) == Extension(p) \in { <<Dot, "dawproject">>, <<Dot, "xml">> }

C12_ExtensionAllowList ==
    [][ /\ call'.op # "external"
           => \A a \in Universe :
                 (fs'[a].kind = "file" /\ fs'[a] # fs[a])
                    => AllowedExtension(AbsPath(a))
        /\ (call'.op \in {"saveProject", "createWriter"}
              /\ ~AllowedExtension(call'.path))
           => (~res'.success /\ fs' = fs) ]_vars

\* a writer has put its buffer in the target file, and saveProject has then
\* been refused for "notes.txt"
C12_Witness ==
    /\ call.op = "saveProject" /\ call.path = PathTxt /\ ~res.success
    /\ writer.alive /\ writer.isOpen_
    /\ fs[Resolve(PathOut)].data = writer.xmlBuffer_
    /\ fs[Resolve(PathTxt)].kind = "none"
    /\ fs[Resolve(ParentPath(PathSubTxt))].kind = "none"

(***************************************************************************)
(* C13: Result invariant.  What an operation returning a Result gives back *)
(* has, when success is true, an empty errorMessage and errorCode 0, and,  *)
(* when success is false, a non-empty errorMessage and the                 *)
(* default-constructed value.                                              *)
(***************************************************************************)
ResultOps ==
    ReadOps \cup WriteOps
    \cup {"finalize", "saveProject", "loadProjectInfo", "loadTracks", "loadClips"}

C13_ResultInvariant ==
    call.op \in ResultOps =>
        /\ res.success => (res.errorMessage = <<>> /\ res.errorCode = 0)
        /\ ~res.success => (Size(res.errorMessage) > 0 /\ res.value = NoValue)

\* finalize() of an open writer has failed on a target it cannot write
C13_Witness ==
    /\ call.op = "finalize" /\ ~res.success
    /\ writer.isOpen_ /\ Len(hist.writeLog) > 0
    /\ fs[Resolve(PathOut)].kind = "file" /\ ~fs[Resolve(PathOut)].w

(***************************************************************************)
(* Notions of the loading and validating calls.                            *)
(***************************************************************************)
\* the node a non-empty path names
NodeAt(p) == fs[Resolve(p)]

\* the path names a regular file
NamesFile(p) == ~PathEmpty(p) /\ NodeAt(p).kind = "file"

\* the text ends with the given one
EndsWith(str, tail) ==
    /\ Len(tail) <= Len(str)
    /\ SubSeq(str, Len(str) - Len(tail) + 1, Len(str)) = tail

MiB == 1024 * 1024

C15_FastCheckConsistent ==
    call.op = "isValidProjectFile" =>
        /\ res.success <=>
              /\ NamesFile(call.path)
              /\ NodeAt(call.path).r
              /\ Size(NodeAt(call.path).data) \in 1..(100 * MiB)
              /\ AllowedExtension(call.path)
        /\ res.success => ValidateFileResult(fs, call.path).isValid

\* accepted at the upper limit: a readable .dawproject file of exactly 100 MiB
C15_Witness ==
    /\ call.op = "isValidProjectFile" /\ call.path = PathOut
    /\ res.success
    /\ Size(NodeAt(PathOut).data) = 100 * MiB

TooLarge(c) ==
    c.op = "loadProjectInfo" /\ NamesFile(c.path)
    /\ Size(NodeAt(c.path).data) > 100 * MiB

C17_LoadErrors ==
    call.op \in {"loadProjectInfo", "loadTracks"} =>
        /\ PathEmpty(call.path) =>
              (~res.success /\ res.errorMessage = Lit("Path cannot be empty"))
        /\ (~PathEmpty(call.path) /\ NodeAt(call.path).kind = "none") =>
              /\ ~res.success
              /\ Head(res.errorMessage).s = "File does not exist: "
              /\ EndsWith(Tail(res.errorMessage), PathString(call.path))
        /\ (~PathEmpty(call.path) /\ NodeAt(call.path).kind = "dir") =>
              /\ ~res.success
              /\ Head(res.errorMessage).s = "Path is not a regular file: "
              /\ EndsWith(Tail(res.errorMessage), PathString(call.path))
        /\ TooLarge(call) =>
              (~res.success /\ Head(res.errorMessage).s = "File too large: ")
        /\ res.success => (NamesFile(call.path) /\ ~TooLarge(call))

\* loadProjectInfo("out.dawproject") while there is no such file
C17_Witness ==
    /\ call.op = "loadProjectInfo" /\ call.path = PathOut
    /\ NodeAt(PathOut).kind = "none"
    /\ ~res.success
    /\ hist.external > 0

(***************************************************************************)
(* C18: ValidationResult operations.  addError appends one error and sets  *)
(* isValid to false; addWarning appends one warning and leaves isValid as  *)
(* it was; r.merge(o) makes r.errors the old errors followed by those of   *)
(* o, r.warnings the old warnings followed by those of o and r.isValid the *)
(* conjunction of the two, and leaves o as it was.                         *)
(***************************************************************************)
C18_ValidationResultOperations ==
    [][ LET r == res.value.validation
            after == res'.value.validation
            o == call.other
        IN  /\ call'.op = "addError" =>
                  /\ after.errors = Append(r.errors, call'.message)
                  /\ ~after.isValid
                  /\ after.warnings = r.warnings
            /\ call'.op = "addWarning" =>
                  /\ after.warnings = Append(r.warnings, call'.message)
                  /\ after.isValid = r.isValid
                  /\ after.errors = r.errors
            /\ call'.op = "merge" =>
                  /\ after.errors = r.errors \o o.errors
                  /\ after.warnings = r.warnings \o o.warnings
                  /\ Len(after.errors) = Len(r.errors) + Len(o.errors)
                  /\ after.isValid = (r.isValid /\ o.isValid)
                  /\ call'.other = o ]_vars

\* an invalid result has taken in the errors and warnings of a valid one and
\* is still invalid
C18_Witness ==
    /\ call.op = "merge"
    /\ call.other.isValid /\ call.other.errors # <<>>
    /\ call.other.warnings # <<>>
    /\ ~res.value.validation.isValid
    /\ Len(res.value.validation.errors) > Len(call.other.errors)

(***************************************************************************)
(* C19: ProjectInfo validity.  p.isValid() is true exactly when the title  *)
(* is non-empty and the tempo is greater than 0, and exactly when          *)
(* p.getValidationErrors() is empty; getValidationErrors() is empty        *)
(* exactly when p.isValid() is true.                                       *)
(***************************************************************************)
C19_ValidIffNoValidationErrors ==
    /\ call.op = "isValid" =>
          /\ res.success <=>
                /\ Size(call.info.title) > 0
                /\ call.info.tempo.k = "num" /\ call.info.tempo.v > 0
          /\ res.success <=> GetValidationErrorsResult(call.info) = <<>>
    /\ call.op = "getValidationErrors" =>
          (res.value.list = <<>> <=> IsValidResult(call.info))

(***************************************************************************)
(* C20: Memory statistics.  After every call of the memory manager         *)
(* getPeakAllocated() is at least getTotalAllocated(), and no call lowers  *)
(* getPeakAllocated(): freeing blocks lowers the total and leaves the peak *)
(* at its highest value.                                                   *)
(***************************************************************************)
C20_PeakAboveTotal ==
    /\ GetPeakAllocated(memory) >= GetTotalAllocated(memory)
    /\ [][ /\ GetPeakAllocated(memory') >= GetPeakAllocated(memory)
           /\ GetPeakAllocated(memory') >= GetTotalAllocated(memory') ]_vars

\* two blocks were allocated and one of them has been freed: the total is
\* down to the block that is left, the peak is still the sum of the two
C20_Witness ==
    /\ call.op \in {"deallocate", "deallocateAligned"}
    /\ Cardinality(memory.heap) = 1
    /\ GetTotalAllocated(memory) = 16
    /\ GetPeakAllocated(memory) = 1024 + 16

(***************************************************************************)
(* C22: The closing fragment.  The content of the target file after a      *)
(* successful finalize() holds the closing fragment "</Project>" exactly   *)
(* once, as its last fragment.                                             *)
(***************************************************************************)
\* the positions of the text where the closing fragment stands
FooterPositions(str) == { i \in 1..Len(str) : <<str[i]>> = XmlFooter }

C22_ClosedOnceAtTheEnd ==
    (call.op = "finalize" /\ res.success) =>
        FooterPositions(fs[Resolve(writer.filePath_)].data)
            = { Len(fs[Resolve(writer.filePath_)].data) }

(***************************************************************************)
(* C23: The buffer of a writer never holds more than 10 MiB, whatever the  *)
(* calls to open, writeProjectInfo, writeTrack, writeClip, finalize and    *)
(* close.                                                                  *)
(***************************************************************************)
C23_BufferWithinLimit ==
    writer.alive => Size(writer.xmlBuffer_) <= 10 * 1024 * 1024

(***************************************************************************)
(* C24: The sequential write pattern project info -> tracks -> clips.  The *)
(* buffer of an open writer holds at most one project-info fragment, no    *)
(* track fragment stands before it, and no clip fragment stands before a   *)
(* track fragment.                                                         *)
(***************************************************************************)
\* the positions of the text where a fragment of one element begins
FragmentPositions(str, opening) ==
    { i \in 1..Len(str) : <<str[i]>> = Lit(opening) }

C24_SequentialPattern ==
    (writer.alive /\ writer.isOpen_) =>
        LET infos == FragmentPositions(writer.xmlBuffer_, "  <ProjectInfo title=\"")
            tracks == FragmentPositions(writer.xmlBuffer_, "  <Track id=\"")
            clips == FragmentPositions(writer.xmlBuffer_, "  <Clip id=\"")
        IN  /\ Cardinality(infos) <= 1
            /\ \A i \in infos, t \in tracks : i < t
            /\ \A t \in tracks, c \in clips : t < c

(***************************************************************************)
(* C25: Strong guarantee for the writer.  A writer operation that returns  *)
(* an error or false (a rejected write, a failed finalize(), a failed      *)
(* open()) leaves the buffer and the Open/Closed state of the writer as    *)
(* they were before the call.                                              *)
(***************************************************************************)
WriterOps == WriteOps \cup {"writer.open", "finalize"}

C25_WriterStrongGuarantee ==
    [][ (call'.op \in WriterOps /\ WriterStep /\ ~res'.success) =>
            /\ writer'.xmlBuffer_ = writer.xmlBuffer_
            /\ writer'.isOpen_ = writer.isOpen_ ]_vars

CursorsInRange ==
    reader.alive =>
        /\ 0 <= reader.currentTrackIndex_
        /\ reader.currentTrackIndex_ <= GetTrackCount
        /\ 0 <= reader.currentClipIndex_
        /\ reader.currentClipIndex_ <= GetClipCount
        /\ ~reader.isOpen_ =>
              reader.currentTrackIndex_ = 0 /\ reader.currentClipIndex_ = 0

C27_CursorInvariant ==
    /\ []CursorsInRange
    /\ [][ /\ (call'.op = "readNextTrack" /\ ReaderStep) =>
                 reader'.currentClipIndex_ = reader.currentClipIndex_
           /\ (call'.op = "readNextClip" /\ ReaderStep) =>
                 reader'.currentTrackIndex_ = reader.currentTrackIndex_ ]_vars

\* a reader that read its only track was closed: the cursor is back at zero
C27_Witness ==
    /\ reader.alive /\ ~reader.isOpen_
    /\ call.op = "reader.close"
    /\ hist.readBefore = 1
    /\ GetTrackCount = 1
    /\ reader.currentTrackIndex_ = 0

(***************************************************************************)
(* C28: The content of the target file is changed only by finalize().      *)
(* open() leaves every existing file as it is and at most creates an       *)
(* empty file where there was none; the write calls, close() and the       *)
(* destructor leave the file system as it is, and close() and the          *)
(* destructor discard the buffer.                                          *)
(***************************************************************************)
\* no file lost or changed; what is new is an empty file or a directory
FilesKept(f, g) ==
    \A a \in DOMAIN f :
        /\ f[a].kind = "file" => g[a] = f[a]
        /\ f[a].kind # "file" => g[a].data = <<>>

C28_OnlyFinalizeWrites ==
    [][ /\ (call'.op = "writer.open" /\ WriterStep) => FilesKept(fs, fs')
        /\ (call'.op \in WriteOps /\ WriterStep) => fs' = fs
        /\ (call'.op = "writer.close" /\ WriterStep) =>
              fs' = fs /\ writer'.xmlBuffer_ = <<>> /\ ~writer'.isOpen_
        /\ (call'.op = "destroyWriter" /\ writer.alive) =>
              fs' = fs /\ writer' = NoWriter ]_vars

\* a second session was opened on the file the first one finalized, and
\* the file still holds what the first one wrote
C28_Witness ==
    /\ writer.alive /\ writer.isOpen_
    /\ call.op = "writer.open" /\ res.success
    /\ writer.xmlBuffer_ = XmlHeader
    /\ hist.finalizes = 1 /\ hist.finalized = 0
    /\ Len(fs[Resolve(writer.filePath_)].data) >= 2

(***************************************************************************)
(* C29: When saveProject returns an input-validation error (empty path,    *)
(* empty title, tempo outside (0, 999], traversal rejection, disallowed    *)
(* extension), the file system is unchanged.                               *)
(***************************************************************************)
\* the first words of the errors the input validation returns
ValidationErrorHeads ==
    { "Output path cannot be empty", "Project title cannot be empty",
      "Invalid tempo: ", "Invalid path: contains parent directory references",
      "Invalid file extension: " }

C29_RejectionLeavesFiles ==
    [][ ( /\ call'.op = "saveProject"
          /\ ~res'.success
          /\ Head(res'.errorMessage).s \in ValidationErrorHeads ) =>
            fs' = fs ]_vars

\* a project without a title was refused for a path whose directory does
\* not exist, and the directory still does not exist
C29_Witness ==
    /\ call.op = "saveProject" /\ ~res.success
    /\ call.path = PathSub
    /\ res.errorMessage = Lit("Project title cannot be empty")
    /\ ~Exists(fs, ParentPath(PathSub))

(***************************************************************************)
(* C21: Condition variable coordination.  A thread that has called wait()  *)
(* does not return before a notification, and once another thread calls    *)
(* notifyOne() after the waiter has called wait(), the waiter returns      *)
(* from wait() in the end, under fair scheduling.                          *)
(***************************************************************************)
\* the waiter is inside a call of wait()
InWait == cv.op = "wait" /\ cv.pc # "idle"

\* wait() returns only to a waiter that was notified
ReturnsOnNotification ==
    [][ (InWait /\ cv'.pc = "idle") => cv.wake = "notify" ]_vars

\* a notifyOne() made after the call of wait() began gets through
NotificationDelivered == (InWait /\ cv.notified) ~> (cv.pc = "idle")

C21_WaitNotifyCoordination ==
    ReturnsOnNotification /\ NotificationDelivered

(***************************************************************************)
(* C30: Tracking consistency of the memory manager under concurrency.      *)
(* Whatever the interleaving of allocate, allocateAligned, reallocate,     *)
(* deallocate and deallocateAligned calls of several threads, each on the  *)
(* blocks it holds: whenever getTotalAllocated() can take the mutex it     *)
(* returns the sum of the sizes recorded for the tracked blocks, a tracked *)
(* block is in one of the two maps only, and no block is freed or erased   *)
(* twice, reallocate on its second branch included.                        *)
(***************************************************************************)
RECURSIVE SumOver(_, _)
\* the sum of the sizes a map records for the given blocks
SumOver(map, blocks) ==
    IF blocks = {} THEN 0
    ELSE LET a == CHOOSE x \in blocks : TRUE
         IN  map[a] + SumOver(map, blocks \ {a})

TrackedBytes(m) ==
    SumOver(m.allocations_, DOMAIN m.allocations_)
    + SumOver(m.alignedAllocations_, DOMAIN m.alignedAllocations_)

C30_TrackingConsistent ==
    /\ tasks.mutex_ = "none" =>
          GetTotalAllocated(memory) = TrackedBytes(memory)
    /\ DOMAIN memory.allocations_ \cap DOMAIN memory.alignedAllocations_ = {}
    /\ (DOMAIN memory.allocations_ \cup DOMAIN memory.alignedAllocations_)
          \subseteq memory.heap
    /\ ~tasks.freedTwice

\* a thread moved a block with reallocate while the other thread changed
\* the total between the unlock and the lock of reallocate; both blocks
\* that are left are tracked
C30_Witness ==
    /\ tasks.crossed
    /\ \A t \in Threads : tasks.thread[t].pc = "idle"
    /\ Cardinality(memory.heap) = 2
    /\ GetTotalAllocated(memory) = 1024 + 16

====
